---- MODULE Spec2Model ----
(***************************************************************************)
(* A model of the session-gating middleware (src/middleware.ts) and of the *)
(* chat components (src/app/layout.tsx, src/unnamed/part_001,              *)
(* src/app/chat/components/Chat.tsx).                                      *)
(*                                                                         *)
(* Nine state machines share the module, each with its own specification:  *)
(*   SpecGuard    - the routing layer's matcher and the middleware         *)
(*   SpecSettings - the optimistic (modelType, option) pair and the        *)
(*                  endpoint derived from it (SpecSettingsFulfilled: with  *)
(*                  every persist call fulfilled)                          *)
(*   SpecRender   - the message list, its partition into buckets and the   *)
(*                  rendered view (SpecRerender: with stored messages, the *)
(*                  wall clock and renders of an unchanged list)           *)
(*   SpecUi       - the chat hook's requests and stream, the copy button   *)
(*   SpecStore    - the chat hook's message lists by hook id               *)
(*   SpecEarlier  - the earlier revisions of the guard (try/catch and      *)
(*                  pass-through)                                          *)
(*   SpecCache    - the chat previews cache and onFinish                   *)
(*   SpecShell    - the resize listener, isMobile and the sidebar          *)
(*   SpecPage     - the welcome screen, the textarea and the landing       *)
(*                  page's search form (SpecPageFair: the welcome effect   *)
(*                  runs in the end)                                       *)
(* A specification leaves the variables of the other machines unchanged.   *)
(***************************************************************************)
EXTENDS Integers, Sequences, FiniteSets, TLC

VARIABLES
    \* ---- route guard ----
    gpc,            \* "idle" | "awaiting" | "returned" | "threw" | "skipped"
    request,        \* the inbound request: [origin, pathname, search, cookies]
    response,       \* the middleware's local `response`
    result,         \* what the request pipeline received from the guard
    guardRan,       \* the middleware function was entered for this request
    providerCalls,  \* calls of auth.getUser made for this request
    setAllCount,    \* calls of cookies.setAll made by the provider
    passed,         \* cookie name -> value last passed to setAll (or Absent)
    session,        \* what getUser resolved to: "unresolved" | "none" | a user
    \* ---- settings / endpoint ----
    variant,              \* which chat component is mounted
    initialModelType,     \* prop (the passthrough of useOptimistic)
    initialSelectedOption,\* prop
    optimisticModelType,  \* value returned by useOptimistic
    optimisticOption,     \* value returned by useOptimistic
    apiEndpoint,          \* const apiEndpoint of the last render
    hookApi,              \* `api` handed to useChat at the last render
    inputApiEndpoint,     \* `apiEndpoint` prop handed to MessageInput
    pending,              \* setModelSettings calls in flight
    queued,               \* hooks holding an optimistic update not yet dropped
    chosen,               \* history: the value the user chose last, per field
    issued,               \* history: the pair of the last setModelSettings call
    \* ---- message rendering ----
    messages,       \* the message list of useChat
    buckets,        \* per variant, per message: the four part buckets
    view,           \* per variant, per message: the rendered card
    clock,          \* the wall clock read by `new Date()`, in minutes
    \* ---- chat hook and local UI state ----
    isCopied,       \* useState(false): the copy confirmation
    clipboard,      \* the text last written by navigator.clipboard.writeText
    timers,         \* remaining ms of each setTimeout not yet run
    sinceCopy,      \* history: ms since the last copy trigger (capped)
    toasts,         \* the notifications shown by toast.error
    status,         \* useChat status
    requests,       \* requests the chat hook has sent to its endpoint
    \* ---- chat hook stores ----
    mounts,         \* the mounted chat component instances
    lists,          \* hook id -> the message list stored under it
    \* ---- earlier revisions of the guard ----
    revision,       \* the deployed earlier revision
    earlierRequest, \* the request being handled: [pathname, cookies]
    thrownAt,       \* history: the call that threw while handling it
    earlierResult,  \* what the request pipeline received from that revision
    consoleLog,     \* the lines written to the console for this request
    \* ---- chat previews cache ----
    chatIdProp,     \* the chatId prop of the component
    currentChatId,  \* useParams().id: the chat id of the current route
    cache,          \* SWR cache key -> revalidations triggered for it
    \* ---- window size and sidebar ----
    shellPc,        \* "rendered" (effects not yet run) | "mounted" | "unmounted"
    innerWidth,     \* window.innerWidth
    prevWidth,      \* history: window.innerWidth before the last resize
    isMobile,       \* useState(false)
    sidebarOpen,    \* useState(false)
    listeners,      \* 'resize' listeners of the component on window
    \* ---- welcome screen, textarea and landing page ----
    page,           \* the document shown: "landing" | "chat" | "navigated"
    showWelcome,    \* useState(true)
    input,          \* the chat hook's input, the value of the textarea
    effectLength,   \* messages.length when the welcome effect last ran
    lastEvent,      \* history: the last event a handler of the page ran for
    searchQuery,    \* useState('') of the landing page's Banner
    href            \* window.location.href of the landing page's document

guardVars == <<gpc, request, response, result, guardRan, providerCalls,
               setAllCount, passed, session>>
settingsVars == <<variant, initialModelType, initialSelectedOption,
                  optimisticModelType, optimisticOption, apiEndpoint,
                  hookApi, inputApiEndpoint, pending, queued, chosen, issued>>
renderVars == <<messages, buckets, view, clock>>
uiVars == <<isCopied, clipboard, timers, sinceCopy, toasts, status, requests>>
storeVars == <<mounts, lists>>
earlierVars == <<revision, earlierRequest, thrownAt, earlierResult, consoleLog>>
cacheVars == <<chatIdProp, currentChatId, cache>>
shellVars == <<shellPc, innerWidth, prevWidth, isMobile, sidebarOpen, listeners>>
pageVars == <<page, showWelcome, input, effectLength, lastEvent, searchQuery, href>>
vars == <<guardVars, settingsVars, renderVars, uiVars, storeVars, earlierVars, cacheVars, shellVars, pageVars>>

(***************************************************************************)
(* Strings of the program are sequences of one-character strings, so that  *)
(* startsWith and the matcher's regular expression are computed on         *)
(* characters.                                                             *)
(***************************************************************************)
\* /
P_root == <<"/">>
\* /chat
P_chat == <<"/", "c", "h", "a", "t">>
\* /chat/1
P_chat_id == <<"/", "c", "h", "a", "t", "/", "1">>
\* /chatter
P_chatter == <<"/", "c", "h", "a", "t", "t", "e", "r">>
\* /Chat
P_Chat == <<"/", "C", "h", "a", "t">>
\* /x/chat
P_x_chat == <<"/", "x", "/", "c", "h", "a", "t">>
\* /protected
P_protected == <<"/", "p", "r", "o", "t", "e", "c", "t", "e", "d">>
\* /protected/x
P_protected_x == <<"/", "p", "r", "o", "t", "e", "c", "t", "e", "d", "/", "x">>
\* /protect
P_protect == <<"/", "p", "r", "o", "t", "e", "c", "t">>
\* /signin
P_signin == <<"/", "s", "i", "g", "n", "i", "n">>
\* /_next/static/a
P_next_static == <<"/", "_", "n", "e", "x", "t", "/", "s", "t", "a", "t", "i", "c", "/", "a">>
\* /_next/image
P_next_image == <<"/", "_", "n", "e", "x", "t", "/", "i", "m", "a", "g", "e">>
\* /_next/data
P_next_data == <<"/", "_", "n", "e", "x", "t", "/", "d", "a", "t", "a">>
\* /favicon.ico
P_favicon == <<"/", "f", "a", "v", "i", "c", "o", "n", ".", "i", "c", "o">>
\* /faviconXico
P_faviconXico == <<"/", "f", "a", "v", "i", "c", "o", "n", "X", "i", "c", "o">>
\* /api/chat
P_api_chat == <<"/", "a", "p", "i", "/", "c", "h", "a", "t">>
\* /api
P_api == <<"/", "a", "p", "i">>
\* /fonts/a
P_fonts_a == <<"/", "f", "o", "n", "t", "s", "/", "a">>
\* /fonts
P_fonts == <<"/", "f", "o", "n", "t", "s">>
\* /sitemap.xml
P_sitemap == <<"/", "s", "i", "t", "e", "m", "a", "p", ".", "x", "m", "l">>
\* /robots.txt
P_robots == <<"/", "r", "o", "b", "o", "t", "s", ".", "t", "x", "t">>
\* /robots.txt.bak
P_robots_bak == <<"/", "r", "o", "b", "o", "t", "s", ".", "t", "x", "t", ".", "b", "a", "k">>
\* /.well-known/x
P_wellknown_x == <<"/", ".", "w", "e", "l", "l", "-", "k", "n", "o", "w", "n", "/", "x">>
\* /.well-known
P_wellknown == <<"/", ".", "w", "e", "l", "l", "-", "k", "n", "o", "w", "n">>
\* /chat/api/x
P_chat_api == <<"/", "c", "h", "a", "t", "/", "a", "p", "i", "/", "x">>

\* The request paths the model sends.
Paths ==
    {P_root, P_chat, P_chat_id, P_chatter, P_Chat,
     P_x_chat, P_protected, P_protected_x, P_protect, P_signin,
     P_next_static, P_next_image, P_next_data, P_favicon, P_faviconXico,
     P_api_chat, P_api, P_fonts_a, P_fonts, P_sitemap,
     P_robots, P_robots_bak, P_wellknown_x, P_wellknown, P_chat_api}

Origins == {"https://a.test", "https://b.test"}

\* The query strings of request.url: none, or the one the landing page's
\* search navigates with.
Searches == {"", "?q=drug%20dosing"}

\* The request targets the model sends: every path without a query, and a
\* protected and a public path with each query.
Targets ==
    [pathname : Paths, search : {""}]
    \cup [pathname : {P_chat, P_protected_x, P_root}, search : Searches]

\* s.startsWith(p)
StartsWith(s, p) ==
    /\ Len(s) >= Len(p)
    /\ SubSeq(s, 1, Len(p)) = p

\* config.matcher of the session revision (src/middleware.ts:45) is one
\* regular expression: a leading '/', then a group that starts with a negative
\* lookahead over the alternatives
\*   _next/static  _next/image  favicon.ico  api/  fonts/  sitemap.xml
\*   robots.txt  \\.well-known/
\* (api/, fonts/ and .well-known/ are each followed by "any characters") and
\* then takes any characters.  The alternatives are kept character by
\* character: an unescaped '.' of the expression is AnyChar, and a trailing
\* "any characters" matches the empty string, so it adds nothing to a lookahead.
AnyChar == "<any>"

matcherAlternatives ==
    { <<"_", "n", "e", "x", "t", "/", "s", "t", "a", "t", "i", "c">>,
      <<"_", "n", "e", "x", "t", "/", "i", "m", "a", "g", "e">>,
      <<"f", "a", "v", "i", "c", "o", "n", AnyChar, "i", "c", "o">>,
      <<"a", "p", "i", "/">>,
      <<"f", "o", "n", "t", "s", "/">>,
      <<"s", "i", "t", "e", "m", "a", "p", AnyChar, "x", "m", "l">>,
      <<"r", "o", "b", "o", "t", "s", AnyChar, "t", "x", "t">>,
      <<".", "w", "e", "l", "l", "-", "k", "n", "o", "w", "n", "/">> }

\* The regular expression `pat` matches at the start of `s`.
LookingAt(s, pat) ==
    /\ Len(s) >= Len(pat)
    /\ \A i \in 1..Len(pat) : pat[i] = AnyChar \/ pat[i] = s[i]

\* matcher with the api alternative left out of the lookahead
matcher_apiNotExcluded(path) ==
    /\ Len(path) >= 1
    /\ path[1] = "/"
    /\ \A alt \in matcherAlternatives \ {<<"a", "p", "i", "/">>} :
           ~LookingAt(Tail(path), alt)

\* The routing layer runs the middleware for `path`: a leading '/', then a
\* rest at whose start no alternative of the lookahead matches.
matcher(path) ==
    /\ Len(path) >= 1
    /\ path[1] = "/"
    /\ \A alt \in matcherAlternatives : ~LookingAt(Tail(path), alt)

(***************************************************************************)
(* Cookies.  A jar maps each cookie name to Absent or to what was set.     *)
(***************************************************************************)
CookieNames == {"sb-access", "sb-refresh"}
CookieValues == {"t1", "t2"}
CookieOptions == {"httpOnly"}
Absent == "<absent>"

EmptyJar == [n \in CookieNames |-> Absent]
AbsentCookie == [value |-> Absent, options |-> Absent]
EmptyResponseJar == [n \in CookieNames |-> AbsentCookie]
NoLocation == [origin |-> "", pathname |-> <<>>, search |-> ""]

\* The entries { name, value, options } the provider hands to setAll.
CookieEntries ==
    [name : CookieNames, value : CookieValues, options : CookieOptions]

\* NextResponse.next()
NextResponseNext ==
    [kind |-> "next", location |-> NoLocation, cookies |-> EmptyResponseJar]

\* NextResponse.redirect(url)
NextResponseRedirect(url) ==
    [kind |-> "redirect", location |-> url, cookies |-> EmptyResponseJar]

\* new URL(path, base) for a path that starts with '/': the origin of the
\* base with the given path; the path and the query of the base are dropped.
newURL(path, base) == [origin |-> base.origin, pathname |-> path, search |-> ""]

SignInPath == <<"/", "s", "i", "g", "n", "i", "n">>

\* the query of the request carried over to the redirect
redirectUrl_keepsSearch(req) ==
    [origin |-> req.origin, pathname |-> SignInPath, search |-> req.search]

\* new URL('/signin', request.url)
redirectUrl(req) == newURL(SignInPath, req)

\* cookiesToSet.forEach(({ name, value }) => request.cookies.set(name, value))
RECURSIVE requestCookiesSet(_, _)
requestCookiesSet(jar, cookiesToSet) ==
    IF cookiesToSet = <<>> THEN jar
    ELSE requestCookiesSet(
             [jar EXCEPT ![Head(cookiesToSet).name] = Head(cookiesToSet).value],
             Tail(cookiesToSet))

\* cookiesToSet.forEach(({ name, value, options }) =>
\*   response.cookies.set(name, value, options))
RECURSIVE responseCookiesSet(_, _)
responseCookiesSet(jar, cookiesToSet) ==
    IF cookiesToSet = <<>> THEN jar
    ELSE responseCookiesSet(
             [jar EXCEPT ![Head(cookiesToSet).name] =
                 [value |-> Head(cookiesToSet).value,
                  options |-> Head(cookiesToSet).options]],
             Tail(cookiesToSet))

\* the new response left without the cookies of the call
setAllResponse_dropsCookies(old, cookiesToSet) == NextResponseNext

\* The response setAll leaves in `response`: a new NextResponse.next() that
\* carries the cookies of this call.
setAllResponse(old, cookiesToSet) ==
    [NextResponseNext EXCEPT
        !.cookies = responseCookiesSet(NextResponseNext.cookies, cookiesToSet)]

\* pathname.startsWith('/protected') || pathname.startsWith('/chat')
pfx_protected == <<"/", "p", "r", "o", "t", "e", "c", "t", "e", "d">>
pfx_chat == <<"/", "c", "h", "a", "t">>
\* includes() in place of startsWith()
isProtectedRoute_includes(currentRoute) ==
    \E i \in 1..Len(currentRoute) :
        \/ StartsWith(SubSeq(currentRoute, i, Len(currentRoute)), pfx_protected)
        \/ StartsWith(SubSeq(currentRoute, i, Len(currentRoute)), pfx_chat)

isProtectedRoute(currentRoute) ==
    StartsWith(currentRoute, pfx_protected) \/ StartsWith(currentRoute, pfx_chat)

\* the redirect taken for a protected route whatever getUser resolved to
middlewareReturn_ignoresSession(req, resp, user) ==
    IF isProtectedRoute(req.pathname)
    THEN NextResponseRedirect(redirectUrl(req))
    ELSE resp

\* the redirect given the cookies of `response`
middlewareReturn_redirectKeepsCookies(req, resp, user) ==
    IF isProtectedRoute(req.pathname) /\ user = "none"
    THEN [NextResponseRedirect(redirectUrl(req)) EXCEPT !.cookies = resp.cookies]
    ELSE resp

\* The value the middleware returns once getUser has resolved to `user`
\* ("none" for data.user = null).
middlewareReturn(req, resp, user) ==
    IF isProtectedRoute(req.pathname) /\ user = "none"
    THEN NextResponseRedirect(redirectUrl(req))
    ELSE resp

\* ---- bounds of the guard's inputs ----
MaxSetAll == 2      \* calls of setAll during one getUser
MaxBatch == 2       \* cookies handed to one setAll call

SeqsUpTo(S, n) == UNION {[1..k -> S] : k \in 0..n}

Sessions == {"none", "user-1"}

\* The cookie jars inbound requests carry.
InboundJars ==
    { EmptyJar,
      [EmptyJar EXCEPT !["sb-access"] = "t1"],
      [n \in CookieNames |-> "t1"] }

NoRequest == [origin |-> "", pathname |-> <<>>, search |-> "", cookies |-> EmptyJar]
NoResult == [kind |-> "none", location |-> NoLocation, cookies |-> EmptyResponseJar]
Unguarded == [kind |-> "unguarded", location |-> NoLocation, cookies |-> EmptyResponseJar]
Exception == [kind |-> "exception", location |-> NoLocation, cookies |-> EmptyResponseJar]

GuardInit ==
    /\ gpc = "idle"
    /\ request = NoRequest
    /\ response = NoResult
    /\ result = NoResult
    /\ guardRan = FALSE
    /\ providerCalls = 0
    /\ setAllCount = 0
    /\ passed = EmptyJar
    /\ session = "unresolved"

\* A request arrives.  The routing layer tests config.matcher; on a match the
\* middleware runs up to its await: `response = NextResponse.next()`, the
\* client is built and auth.getUser() is called.
routeRequest(path, origin, search, jar) ==
    /\ gpc \in {"idle", "returned", "threw", "skipped"}
    /\ request' = [origin |-> origin, pathname |-> path, search |-> search,
                   cookies |-> jar]
    /\ setAllCount' = 0
    /\ passed' = EmptyJar
    /\ session' = "unresolved"
    /\ IF matcher(path)
       THEN /\ gpc' = "awaiting"
            /\ guardRan' = TRUE
            /\ response' = NextResponseNext
            /\ providerCalls' = 1
            /\ result' = NoResult
       ELSE /\ gpc' = "skipped"
            /\ guardRan' = FALSE
            /\ response' = NoResult
            /\ providerCalls' = 0
            /\ result' = Unguarded
    /\ UNCHANGED <<settingsVars, renderVars, uiVars, storeVars, earlierVars, cacheVars, shellVars, pageVars>>

\* cookies.setAll(cookiesToSet), called by the provider while getUser runs.
setAll(cookiesToSet) ==
    /\ gpc = "awaiting"
    /\ setAllCount < MaxSetAll
    /\ request' = [request EXCEPT
                      !.cookies = requestCookiesSet(request.cookies, cookiesToSet)]
    /\ response' = setAllResponse(response, cookiesToSet)
    /\ setAllCount' = setAllCount + 1
    /\ passed' = requestCookiesSet(passed, cookiesToSet)
    /\ UNCHANGED <<gpc, result, guardRan, providerCalls, session>>
    /\ UNCHANGED <<settingsVars, renderVars, uiVars, storeVars, earlierVars, cacheVars, shellVars, pageVars>>

\* auth.getUser() resolves; the middleware runs to its return.
getUserResolves(user) ==
    /\ gpc = "awaiting"
    /\ session' = user
    /\ result' = middlewareReturn(request, response, user)
    /\ gpc' = "returned"
    /\ UNCHANGED <<request, response, guardRan, providerCalls, setAllCount, passed>>
    /\ UNCHANGED <<settingsVars, renderVars, uiVars, storeVars, earlierVars, cacheVars, shellVars, pageVars>>

\* auth.getUser() rejects: the await throws and nothing catches it.
getUserThrows ==
    /\ gpc = "awaiting"
    /\ result' = Exception
    /\ gpc' = "threw"
    /\ UNCHANGED <<request, response, guardRan, providerCalls, setAllCount,
                   passed, session>>
    /\ UNCHANGED <<settingsVars, renderVars, uiVars, storeVars, earlierVars, cacheVars, shellVars, pageVars>>

GuardNext ==
    \/ \E target \in Targets, origin \in Origins, jar \in InboundJars :
           routeRequest(target.pathname, origin, target.search, jar)
    \/ \E cookiesToSet \in SeqsUpTo(CookieEntries, MaxBatch) : setAll(cookiesToSet)
    \/ \E user \in Sessions : getUserResolves(user)
    \/ getUserThrows

(***************************************************************************)
(* The earlier revisions of the guard: the try/catch revision of           *)
(* src/unnamed/part_000 and the pass-through revision at the end of        *)
(* src/middleware.ts.  Neither builds a provider client.                   *)
(***************************************************************************)
Revisions == {"part_000", "passThrough"}

\* config.matcher of both earlier revisions: '/((?!_next|favicon.ico|robots.txt).*)'
matcherAlternatives_earlier ==
    { <<"_", "n", "e", "x", "t">>,
      <<"f", "a", "v", "i", "c", "o", "n", AnyChar, "i", "c", "o">>,
      <<"r", "o", "b", "o", "t", "s", AnyChar, "t", "x", "t">> }

matcher_earlier(path) ==
    /\ Len(path) >= 1
    /\ path[1] = "/"
    /\ \A alt \in matcherAlternatives_earlier : ~LookingAt(Tail(path), alt)

\* The calls of a handler that may throw; "none" when none does.
ThrowPoints == {"none", "console.log", "NextResponse.next"}

\* What the pipeline receives from an earlier revision.
PassThrough == [kind |-> "next", status |-> 200, body |-> ""]
\* new Response('Middleware failed', { status: 500 })
MiddlewareFailed == [kind |-> "response", status |-> 500, body |-> "Middleware failed"]
EscapedException == [kind |-> "exception", status |-> 0, body |-> ""]
NotHandled == [kind |-> "unguarded", status |-> 0, body |-> ""]
NothingYet == [kind |-> "none", status |-> 0, body |-> ""]

\* console.log('Middleware triggered:', request.nextUrl.pathname)
LogTriggered(path) == [level |-> "log", text |-> "Middleware triggered:", arg |-> path]
\* console.error('Middleware error:', err); the error is named by its origin
LogError(origin) == [level |-> "error", text |-> "Middleware error:", arg |-> <<origin>>]

\* the try block without its catch
middleware_part_000_noCatch(path, throwsAt) ==
    CASE throwsAt = "console.log" ->
             [result |-> EscapedException, log |-> <<>>]
      [] throwsAt = "NextResponse.next" ->
             [result |-> EscapedException, log |-> <<LogTriggered(path)>>]
      [] OTHER ->
             [result |-> PassThrough, log |-> <<LogTriggered(path)>>]

\* part_000: middleware(request), when the call `throwsAt` throws
middleware_part_000(path, throwsAt) ==
    CASE throwsAt = "console.log" ->
             [result |-> MiddlewareFailed, log |-> <<LogError(throwsAt)>>]
      [] throwsAt = "NextResponse.next" ->
             [result |-> MiddlewareFailed,
              log |-> <<LogTriggered(path), LogError(throwsAt)>>]
      [] OTHER ->
             [result |-> PassThrough, log |-> <<LogTriggered(path)>>]

\* middleware.ts:52-56: middleware(request) is `return NextResponse.next()`
\* with nothing around it, and it logs nothing
middleware_passThrough(path, throwsAt) ==
    IF throwsAt = "NextResponse.next"
    THEN [result |-> EscapedException, log |-> <<>>]
    ELSE [result |-> PassThrough, log |-> <<>>]

EarlierParked ==
    /\ revision = "part_000"
    /\ earlierRequest = [pathname |-> <<>>, cookies |-> EmptyJar]
    /\ thrownAt = "none"
    /\ earlierResult = NothingYet
    /\ consoleLog = <<>>

EarlierInit ==
    /\ revision \in Revisions
    /\ earlierRequest = [pathname |-> <<>>, cookies |-> EmptyJar]
    /\ thrownAt = "none"
    /\ earlierResult = NothingYet
    /\ consoleLog = <<>>

\* A request arrives at a deployment of an earlier revision: the routing
\* layer tests config.matcher and on a match the middleware runs to its end.
earlierRouteRequest(path, jar, throwsAt) ==
    /\ earlierRequest' = [pathname |-> path, cookies |-> jar]
    /\ IF matcher_earlier(path)
       THEN LET out == IF revision = "part_000"
                       THEN middleware_part_000(path, throwsAt)
                       ELSE middleware_passThrough(path, throwsAt)
            IN  /\ earlierResult' = out.result
                /\ consoleLog' = out.log
                /\ thrownAt' = IF revision = "passThrough" /\ throwsAt = "console.log"
                               THEN "none" ELSE throwsAt
       ELSE /\ earlierResult' = NotHandled
            /\ consoleLog' = <<>>
            /\ thrownAt' = "none"
    /\ UNCHANGED revision
    /\ UNCHANGED <<guardVars, settingsVars, renderVars, uiVars, storeVars, cacheVars, shellVars, pageVars>>

EarlierNext ==
    \E path \in Paths, jar \in InboundJars, throwsAt \in ThrowPoints :
        earlierRouteRequest(path, jar, throwsAt)

(***************************************************************************)
(* Settings: the optimistic (modelType, option) pair of a chat component   *)
(* and the endpoint derived from it.                                       *)
(***************************************************************************)
\* The three chat components: EnhancedChatComponent of src/app/layout.tsx,
\* ChatComponent of src/unnamed/part_001 (MessageInput, welcome screen) and
\* ChatComponent of src/app/chat/components/Chat.tsx (its own textarea).
Variants == {"layout", "part_001", "Chat"}

Undefined == "<undefined>"
ModelTypes == {"standard", "perplex", "website", "", "Perplex"}
Options == {"gpt", "sonnet"}

MaxPending == 2     \* setModelSettings calls in flight at once

\* layout.tsx: const apiEndpoint = (() => { switch (optimisticModelType) ... })()
apiEndpoint_layout(modelType) ==
    CASE modelType = "perplex" -> "/api/perplexity"
      [] modelType = "website" -> "/api/websitechat"
      [] OTHER -> "/api/chat"

\* part_001: getApiEndpoint
getApiEndpoint_part_001(modelType) ==
    CASE modelType = "perplex" -> "/api/perplexity"
      [] modelType = "website" -> "/api/websitechat"
      [] OTHER -> "/api/chat"

\* Chat.tsx: getApiEndpoint
getApiEndpoint_Chat(modelType) ==
    CASE modelType = "perplex" -> "/api/perplexity"
      [] modelType = "website" -> "/api/websitechat"
      [] OTHER -> "/api/chat"

\* the two non-default cases exchanged
getApiEndpoint_swapped(v, modelType) ==
    CASE modelType = "perplex" -> "/api/websitechat"
      [] modelType = "website" -> "/api/perplexity"
      [] OTHER -> "/api/chat"

getApiEndpoint(v, modelType) ==
    CASE v = "layout" -> apiEndpoint_layout(modelType)
      [] v = "part_001" -> getApiEndpoint_part_001(modelType)
      [] v = "Chat" -> getApiEndpoint_Chat(modelType)

\* The apiEndpoint prop of <MessageInput>; Chat.tsx mounts no MessageInput.
NoInput == "<no MessageInput>"
messageInputApiEndpoint(v, endpoint) ==
    IF v \in {"layout", "part_001"} THEN endpoint ELSE NoInput

\* A render of the component with local model type `modelType`: the endpoint
\* is computed, handed to useChat as `api` and to MessageInput as a prop.
renderEndpoint(v, modelType) ==
    /\ apiEndpoint' = getApiEndpoint(v, modelType)
    /\ hookApi' = getApiEndpoint(v, modelType)
    /\ inputApiEndpoint' = messageInputApiEndpoint(v, getApiEndpoint(v, modelType))

\* the optimistic update kept after its transition has ended
useOptimistic_keepsLast(held, last, passthrough) == last

\* useOptimistic(passthrough, (_, v) => v): the last optimistic update while
\* one is held, the passthrough otherwise.
useOptimistic(held, last, passthrough) == IF held THEN last ELSE passthrough

NoneQueued == [modelType |-> FALSE, option |-> FALSE]

\* no setModelSettings call has been made yet
NotIssued == [modelType |-> Undefined, option |-> Undefined]

SettingsInit ==
    /\ variant \in Variants
    /\ initialModelType \in ModelTypes \cup {Undefined}
    /\ initialSelectedOption \in Options
    /\ optimisticModelType = initialModelType
    /\ optimisticOption = initialSelectedOption
    /\ apiEndpoint = getApiEndpoint(variant, initialModelType)
    /\ hookApi = getApiEndpoint(variant, initialModelType)
    /\ inputApiEndpoint =
           messageInputApiEndpoint(variant, getApiEndpoint(variant, initialModelType))
    /\ pending = <<>>
    /\ queued = NoneQueued
    /\ chosen = [modelType |-> initialModelType, option |-> initialSelectedOption]
    /\ issued = NotIssued

\* the persist call without the optimistic update before it
handleModelTypeChange_noOptimistic(val) ==
    /\ Len(pending) < MaxPending
    /\ pending' = Append(pending,
           [field |-> "modelType", modelType |-> val, option |-> optimisticOption])
    /\ chosen' = [chosen EXCEPT !.modelType = val]
    /\ issued' = [modelType |-> val, option |-> optimisticOption]
    /\ renderEndpoint(variant, optimisticModelType)
    /\ UNCHANGED <<variant, initialModelType, initialSelectedOption,
                   optimisticModelType, optimisticOption, queued>>
    /\ UNCHANGED <<guardVars, renderVars, uiVars, storeVars, earlierVars, cacheVars, shellVars, pageVars>>

\* handleModelTypeChange(val): the optimistic update, then the persist call
\* with the option of the render the handler was created in.
handleModelTypeChange(val) ==
    /\ Len(pending) < MaxPending
    /\ optimisticModelType' = val
    /\ queued' = [queued EXCEPT !.modelType = TRUE]
    /\ pending' = Append(pending,
           [field |-> "modelType", modelType |-> val, option |-> optimisticOption])
    /\ chosen' = [chosen EXCEPT !.modelType = val]
    /\ issued' = [modelType |-> val, option |-> optimisticOption]
    /\ renderEndpoint(variant, val)
    /\ UNCHANGED <<variant, initialModelType, initialSelectedOption, optimisticOption>>
    /\ UNCHANGED <<guardVars, renderVars, uiVars, storeVars, earlierVars, cacheVars, shellVars, pageVars>>

\* handleOptionChange(val)
handleOptionChange(val) ==
    /\ Len(pending) < MaxPending
    /\ optimisticOption' = val
    /\ queued' = [queued EXCEPT !.option = TRUE]
    /\ pending' = Append(pending,
           [field |-> "option", modelType |-> optimisticModelType, option |-> val])
    /\ chosen' = [chosen EXCEPT !.option = val]
    /\ issued' = [modelType |-> optimisticModelType, option |-> val]
    /\ UNCHANGED <<variant, initialModelType, initialSelectedOption,
                   optimisticModelType, apiEndpoint, hookApi, inputApiEndpoint>>
    /\ UNCHANGED <<guardVars, renderVars, uiVars, storeVars, earlierVars, cacheVars, shellVars, pageVars>>

RemoveAt(seq, i) == SubSeq(seq, 1, i - 1) \o SubSeq(seq, i + 1, Len(seq))

\* The i-th setModelSettings call in flight settles.  The optimistic updates
\* are dropped once no call is in flight; with `ok` the page is rendered again
\* with the stored pair as its props.
settle(i, ok) ==
    /\ i \in 1..Len(pending)
    /\ pending' = RemoveAt(pending, i)
    /\ initialModelType' = IF ok THEN pending[i].modelType ELSE initialModelType
    /\ initialSelectedOption' = IF ok THEN pending[i].option ELSE initialSelectedOption
    /\ queued' = IF pending' = <<>> THEN NoneQueued ELSE queued
    /\ optimisticModelType' =
           useOptimistic(queued'.modelType, optimisticModelType, initialModelType')
    /\ optimisticOption' =
           useOptimistic(queued'.option, optimisticOption, initialSelectedOption')
    /\ renderEndpoint(variant, optimisticModelType')
    /\ UNCHANGED <<variant, chosen, issued>>
    /\ UNCHANGED <<guardVars, renderVars, uiVars, storeVars, earlierVars, cacheVars, shellVars, pageVars>>

\* setModelSettings resolves
persistSucceeds(i) == settle(i, TRUE)

\* setModelSettings rejects
persistFails(i) == settle(i, FALSE)

SettingsNext ==
    \/ \E val \in ModelTypes : handleModelTypeChange(val)
    \/ \E val \in Options : handleOptionChange(val)
    \/ \E i \in 1..MaxPending : persistSucceeds(i)
    \/ \E i \in 1..MaxPending : persistFails(i)

(***************************************************************************)
(* Rendering: the message list, the partition of each message's parts and  *)
(* the card content rendered from it.                                      *)
(***************************************************************************)
MaxMsgs == 1        \* messages in the list
MaxParts == 3       \* parts in the list, over all its messages

Roles == {"user", "assistant"}
ToolNames == {"searchUserDocument", "websiteSearchTool", "unknownTool"}

\* What tells one part from another of the same kind: `data` stands for the
\* part's text, details, source or toolCallId and is its position in the list.
PartKinds ==
    [type : {"text", "reasoning", "source", "step-start"}, toolName : {""}]
    \cup [type : {"tool-invocation"}, toolName : ToolNames]

\* experimental_attachments: undefined, empty or one file
AttachmentLists ==
    { [defined |-> FALSE, items |-> <<>>],
      [defined |-> TRUE, items |-> <<>>],
      [defined |-> TRUE, items |-> <<1>>] }

\* the filter's test left out
filterParts_noFilter(m, t) == IF m.hasParts THEN m.parts ELSE <<>>

\* m.parts?.filter((p) => p.type === t) || []
filterParts(m, t) ==
    IF m.hasParts THEN SelectSeq(m.parts, LAMBDA p : p.type = t) ELSE <<>>

\* the tool-invocation bucket without its role test
partition_layout_toolsForUser(m) ==
    [ textParts |-> filterParts(m, "text"),
      reasoningParts |-> filterParts(m, "reasoning"),
      sourceParts |-> filterParts(m, "source"),
      toolInvocationParts |-> filterParts(m, "tool-invocation") ]

\* layout.tsx: the four buckets of message m
partition_layout(m) ==
    [ textParts |-> filterParts(m, "text"),
      reasoningParts |-> filterParts(m, "reasoning"),
      sourceParts |-> filterParts(m, "source"),
      toolInvocationParts |->
          IF m.role # "user" THEN filterParts(m, "tool-invocation") ELSE <<>> ]

\* the reasoning bucket emptied for user messages, the tool bucket not
partition_part_001_rolesSwapped(m) ==
    [ textParts |-> filterParts(m, "text"),
      reasoningParts |->
          IF m.role # "user" THEN filterParts(m, "reasoning") ELSE <<>>,
      sourceParts |-> filterParts(m, "source"),
      toolInvocationParts |-> filterParts(m, "tool-invocation") ]

\* part_001: the four buckets of message m
partition_part_001(m) ==
    [ textParts |-> filterParts(m, "text"),
      reasoningParts |-> filterParts(m, "reasoning"),
      sourceParts |-> filterParts(m, "source"),
      toolInvocationParts |->
          IF m.role # "user" THEN filterParts(m, "tool-invocation") ELSE <<>> ]

\* A rendered child: the component and the datum it shows.
Child(renderer, data) == [renderer |-> renderer, data |-> data]
NullChild == Child("null", 0)

\* the default case falling through to the document-search renderer
toolRenderer_defaultRenders(part) ==
    CASE part.toolName = "websiteSearchTool" -> Child("WebsiteSearchTool", part.data)
      [] OTHER -> Child("DocumentSearchTool", part.data)

\* switch (toolName) of toolInvocationParts.map
toolRenderer(part) ==
    CASE part.toolName = "searchUserDocument" -> Child("DocumentSearchTool", part.data)
      [] part.toolName = "websiteSearchTool" -> Child("WebsiteSearchTool", part.data)
      [] OTHER -> NullChild

\* The children React mounts for an array of elements: null renders nothing.
mounted(children) == SelectSeq(children, LAMBDA c : c # NullChild)

\* One section of a card: its kind, its React key and its children.
Section(kind, key, items) == [kind |-> kind, key |-> key, items |-> items]

\* The sections of <CardContent> for message m with buckets b, in JSX order;
\* `keys` are the key prefixes of the variant.
cardContent(m, b, keys) ==
    LET isUser == m.role = "user"
        hasTools == Len(b.toolInvocationParts) > 0
        text == [i \in 1..Len(b.textParts) |->
                    Section("text", <<keys.text, i - 1>>,
                            <<Child("MemoizedMarkdown", b.textParts[i].data)>>)]
        reasoning ==
            IF ~isUser
            THEN [i \in 1..Len(b.reasoningParts) |->
                     Section("reasoning", <<keys.reasoning, i - 1>>,
                             <<Child("ReasoningContent", b.reasoningParts[i].data)>>)]
            ELSE <<>>
        sources ==
            IF ~isUser /\ Len(b.sourceParts) > 0
            THEN << Section("sources", <<"", 0>>,
                            [i \in 1..Len(b.sourceParts) |->
                                Child("SourceView", b.sourceParts[i].data)]) >>
            ELSE <<>>
        attachments ==
            IF isUser /\ m.experimental_attachments.defined
                      /\ Len(m.experimental_attachments.items) > 0
            THEN << Section("attachments", <<"", 0>>,
                            [i \in 1..Len(m.experimental_attachments.items) |->
                                Child("Link", m.experimental_attachments.items[i])]) >>
            ELSE <<>>
        tools ==
            IF hasTools
            THEN << Section("tools", <<"", 0>>,
                            mounted([i \in 1..Len(b.toolInvocationParts) |->
                                        toolRenderer(b.toolInvocationParts[i])])) >>
            ELSE <<>>
    IN  text \o reasoning \o sources \o attachments \o tools

\* the tools accordion placed first in the JSX
cardContent_layout_toolsFirst(m, b) ==
    LET c == cardContent(m, b, [text |-> "txt", reasoning |-> "rsn"])
    IN  SelectSeq(c, LAMBDA x : x.kind = "tools")
            \o SelectSeq(c, LAMBDA x : x.kind # "tools")

\* the tools accordion left out when none of its invocations renders
cardContent_layout_hidesEmptyTools(m, b) ==
    SelectSeq(cardContent(m, b, [text |-> "txt", reasoning |-> "rsn"]),
              LAMBDA x : x.kind # "tools" \/ x.items # <<>>)

\* layout.tsx: <CardContent> of a message
cardContent_layout(m, b) ==
    cardContent(m, b, [text |-> "txt", reasoning |-> "rsn"])

\* the sources block without its role test
cardContent_part_001_sourcesForUser(m, b) ==
    LET c == cardContent(m, b, [text |-> "text", reasoning |-> "reasoning"])
    IN  IF m.role = "user" /\ Len(b.sourceParts) > 0
        THEN c \o << Section("sources", <<"", 0>>,
                             [i \in 1..Len(b.sourceParts) |->
                                 Child("SourceView", b.sourceParts[i].data)]) >>
        ELSE c

\* part_001: <CardContent> of a message
cardContent_part_001(m, b) ==
    cardContent(m, b, [text |-> "text", reasoning |-> "reasoning"])

\* Chat.tsx: <CardContent> of a message is its content as markdown
cardContent_Chat(m) ==
    << Section("content", <<"", 0>>, <<Child("MemoizedMarkdown", m.content)>>) >>

NoBuckets ==
    [textParts |-> <<>>, reasoningParts |-> <<>>, sourceParts |-> <<>>,
     toolInvocationParts |-> <<>>]

\* The buckets each variant computes for message m (Chat.tsx computes none).
partition(v, m) ==
    CASE v = "layout" -> partition_layout(m)
      [] v = "part_001" -> partition_part_001(m)
      [] v = "Chat" -> NoBuckets

\* A time of day as toLocaleTimeString shows it (hour and minute); a
\* createdAt of 0 is a message without one, so minute t is kept as t + 1.
NoTime == 0
timeOf(minute) == minute + 1

\* The time in the card header: m.createdAt when the message has one;
\* without one layout.tsx shows nothing, part_001 and Chat.tsx show the time
\* of `new Date()`, the clock at this render.
timestamp(v, m) ==
    IF m.createdAt # NoTime THEN m.createdAt
    ELSE IF v = "layout" THEN NoTime
    ELSE timeOf(clock)

\* messages.map((m, idx) => <li key={`${m.id}-${idx}`}> ... </li>)
renderMessage(v, m, idx) ==
    [ key |-> <<m.id, idx>>,
      time |-> timestamp(v, m),
      copyButton |-> m.role # "user",
      cardContent |->
          CASE v = "layout" -> cardContent_layout(m, partition_layout(m))
            [] v = "part_001" -> cardContent_part_001(m, partition_part_001(m))
            [] v = "Chat" -> cardContent_Chat(m) ]

renderBuckets(msgs) ==
    [v \in Variants |-> [i \in 1..Len(msgs) |-> partition(v, msgs[i])]]

renderView(msgs) ==
    [v \in Variants |-> [i \in 1..Len(msgs) |-> renderMessage(v, msgs[i], i - 1)]]

RECURSIVE CountParts(_)
CountParts(msgs) ==
    IF msgs = <<>> THEN 0 ELSE Len(Head(msgs).parts) + CountParts(Tail(msgs))

RenderInit ==
    /\ messages = <<>>
    /\ buckets = renderBuckets(<<>>)
    /\ view = renderView(<<>>)
    /\ clock = 0

\* A message joins the list and the list is rendered.
pushMessage(role, hasParts, attachments, createdAt) ==
    /\ messages' = Append(messages,
           [ id |-> Len(messages) + 1,
             role |-> role,
             hasParts |-> hasParts,
             parts |-> <<>>,
             experimental_attachments |-> attachments,
             createdAt |-> createdAt,
             content |-> 10 * (Len(messages) + 1) ])
    /\ buckets' = renderBuckets(messages')
    /\ view' = renderView(messages')
    /\ UNCHANGED clock

\* The chat hook adds a message (the user's submit, or the start of the
\* assistant's answer), stamped with the time it was created.
appendMessage(role, hasParts, attachments) ==
    /\ Len(messages) < MaxMsgs
    /\ pushMessage(role, hasParts, attachments, timeOf(clock))
    /\ UNCHANGED <<guardVars, settingsVars, uiVars, storeVars, earlierVars, cacheVars, shellVars, pageVars>>

\* A part is appended to the last message's part list (a chunk of the stream,
\* or a part of stored data) and the list is rendered.
appendPart(kind) ==
    /\ messages # <<>>
    /\ CountParts(messages) < MaxParts
    /\ LET n == Len(messages)
           m == messages[n]
           part == [type |-> kind.type, toolName |-> kind.toolName,
                    data |-> Len(m.parts) + 1]
       IN  messages' = [messages EXCEPT
               ![n] = [m EXCEPT !.hasParts = TRUE, !.parts = Append(m.parts, part)]]
    /\ buckets' = renderBuckets(messages')
    /\ view' = renderView(messages')
    /\ UNCHANGED clock
    /\ UNCHANGED <<guardVars, settingsVars, uiVars, storeVars, earlierVars, cacheVars, shellVars, pageVars>>

RenderNext ==
    \/ \E role \in Roles, hasParts \in BOOLEAN, attachments \in AttachmentLists :
           appendMessage(role, hasParts, attachments)
    \/ \E kind \in PartKinds : appendPart(kind)

MaxClock == 1       \* minutes the wall clock advances

\* A stored message of currentChat (initialMessages) joins the list; it has
\* no createdAt.
loadStoredMessage(role, hasParts, attachments) ==
    /\ Len(messages) < MaxMsgs
    /\ pushMessage(role, hasParts, attachments, NoTime)
    /\ UNCHANGED <<guardVars, settingsVars, uiVars, storeVars, earlierVars, cacheVars, shellVars, pageVars>>

\* A minute passes on the wall clock; nothing is rendered.
tick ==
    /\ clock < MaxClock
    /\ clock' = clock + 1
    /\ UNCHANGED <<messages, buckets, view>>
    /\ UNCHANGED <<guardVars, settingsVars, uiVars, storeVars, earlierVars, cacheVars, shellVars, pageVars>>

\* The component renders again with the same message list.
rerender ==
    /\ buckets' = renderBuckets(messages)
    /\ view' = renderView(messages)
    /\ UNCHANGED <<messages, clock>>
    /\ UNCHANGED <<guardVars, settingsVars, uiVars, storeVars, earlierVars, cacheVars, shellVars, pageVars>>

RerenderNext ==
    \/ \E role \in Roles, hasParts \in BOOLEAN, attachments \in AttachmentLists :
           appendMessage(role, hasParts, attachments)
    \/ \E role \in Roles, hasParts \in BOOLEAN, attachments \in AttachmentLists :
           loadStoredMessage(role, hasParts, attachments)
    \/ \E kind \in PartKinds : appendPart(kind)
    \/ tick
    \/ rerender


(***************************************************************************)
(* The chat previews cache: onFinish of the chat hook and the SWR mutate   *)
(* it calls.                                                               *)
(***************************************************************************)
\* The chat ids of the model.
ChatIds == {"chat-a", "chat-b"}

\* useParams().id is undefined on a route without an id segment
RouteIds == ChatIds \cup {Undefined}

\* SWR cache keys: arrays that start with 'chatPreviews', an array that
\* starts with another name, and the string 'chatPreviews'.
CacheKeys ==
    { [isArray |-> TRUE, first |-> "chatPreviews", second |-> "user-1"],
      [isArray |-> TRUE, first |-> "chatPreviews", second |-> ""],
      [isArray |-> TRUE, first |-> "documents", second |-> "chatPreviews"],
      [isArray |-> FALSE, first |-> "chatPreviews", second |-> ""] }

\* (key) => Array.isArray(key) && key[0] === 'chatPreviews'
isChatPreviewsKey(key) == key.isArray /\ key.first = "chatPreviews"

\* mutate(filter): every cached key the filter accepts is revalidated
mutate(c) ==
    [key \in CacheKeys |-> IF isChatPreviewsKey(key) THEN c[key] + 1 ELSE c[key]]

\* onFinish that invalidates whatever the two ids are
onFinish_always(id, routeId, c) == mutate(c)

\* onFinish: if (chatId === currentChatId) return; await mutate(...)
onFinish(id, routeId, c) == IF id = routeId THEN c ELSE mutate(c)

(***************************************************************************)
(* The chat hook and the local UI state of a chat component: submitting,   *)
(* the stream's start, end and error, and the copy button with its timer.  *)
(***************************************************************************)
MaxRequests == 2    \* requests the user submits
MaxTimers == 2      \* setTimeout callbacks outstanding at once
MaxToasts == 2      \* notifications shown

\* error.message of a stream error: empty, or a text
ErrorMessages == {"", "Network error"}

\* The steps by which the model lets time pass, in ms.
Durations == {200, 400}

\* the error's message shown even when it is empty
onErrorText_noFallback(v, message) == message

\* onError: toast.error(error.message || <fallback>)
onErrorText(v, message) ==
    IF message # "" THEN message
    ELSE CASE v = "layout" -> "Something went wrong"
           [] v = "part_001" -> "An error occurred"
           [] v = "Chat" -> "Failed to send message. Please try again."

\* setTimeout(() => setIsCopied(false), <delay>)
copyDelay(v) == IF v = "layout" THEN 800 ELSE 1000

\* The icon of a message's copy button: {isCopied ? <CheckCircle/> : <Copy/>},
\* rendered for a non-user message only; every button reads the one flag.
copyIcon(m) ==
    IF m.role = "user" THEN "none"
    ELSE IF isCopied THEN "CheckCircle" ELSE "Copy"

UiInit ==
    /\ isCopied = FALSE
    /\ clipboard = 0
    /\ timers = <<>>
    /\ sinceCopy = copyDelay(variant)
    /\ toasts = <<>>
    /\ status = "ready"
    /\ requests = 0

\* The user's input is submitted: the hook adds the user message and sends
\* the request to its endpoint.
submitMessage ==
    /\ status \in {"ready", "error"}
    /\ requests < MaxRequests
    /\ requests' = requests + 1
    /\ status' = "submitted"
    /\ pushMessage("user", FALSE, [defined |-> FALSE, items |-> <<>>], timeOf(clock))
    /\ UNCHANGED <<isCopied, clipboard, timers, sinceCopy, toasts>>
    /\ UNCHANGED <<guardVars, settingsVars, storeVars, earlierVars, cacheVars, shellVars, pageVars>>

\* The first chunk of the answer arrives: the hook adds the assistant message.
streamStart ==
    /\ status = "submitted"
    /\ status' = "streaming"
    /\ pushMessage("assistant", FALSE, [defined |-> FALSE, items |-> <<>>],
                   timeOf(clock))
    /\ UNCHANGED <<isCopied, clipboard, timers, sinceCopy, toasts, requests>>
    /\ UNCHANGED <<guardVars, settingsVars, storeVars, earlierVars, cacheVars, shellVars, pageVars>>

\* The stream ends and the hook runs onFinish.
streamFinish ==
    /\ status = "streaming"
    /\ status' = "ready"
    /\ cache' = onFinish(chatIdProp, currentChatId, cache)
    /\ UNCHANGED <<chatIdProp, currentChatId>>
    /\ UNCHANGED <<isCopied, clipboard, timers, sinceCopy, toasts, requests>>
    /\ UNCHANGED <<guardVars, settingsVars, renderVars, storeVars, earlierVars, shellVars, pageVars>>

\* The stream reports an error: the hook runs onError.
streamError(message) ==
    /\ status \in {"submitted", "streaming"}
    /\ Len(toasts) < MaxToasts
    /\ status' = "error"
    /\ toasts' = Append(toasts, onErrorText(variant, message))
    /\ UNCHANGED <<isCopied, clipboard, timers, sinceCopy, requests>>
    /\ UNCHANGED <<guardVars, settingsVars, renderVars, storeVars, earlierVars, cacheVars, shellVars, pageVars>>

\* handleCopy of message i: the clipboard write, setIsCopied(true) and the
\* timeout that will run setIsCopied(false).
handleCopy(i) ==
    /\ i \in 1..Len(messages)
    /\ view[variant][i].copyButton
    /\ Len(timers) < MaxTimers
    /\ clipboard' = messages[i].content
    /\ isCopied' = TRUE
    /\ timers' = Append(timers, copyDelay(variant))
    /\ sinceCopy' = 0
    /\ UNCHANGED <<toasts, status, requests>>
    /\ UNCHANGED <<guardVars, settingsVars, renderVars, storeVars, earlierVars, cacheVars, shellVars, pageVars>>

Min(a, b) == IF a < b THEN a ELSE b

\* d ms pass; a timeout that is due runs before more time passes.
elapse(d) ==
    /\ timers # <<>> \/ sinceCopy < copyDelay(variant)
    /\ \A k \in 1..Len(timers) : timers[k] >= d
    /\ timers' = [k \in 1..Len(timers) |-> timers[k] - d]
    /\ sinceCopy' = Min(sinceCopy + d, copyDelay(variant))
    /\ UNCHANGED <<isCopied, clipboard, toasts, status, requests>>
    /\ UNCHANGED <<guardVars, settingsVars, renderVars, storeVars, earlierVars, cacheVars, shellVars, pageVars>>

\* a timeout that resets the flag only when no later timeout is pending
copyTimeout_latestOnly ==
    /\ timers # <<>>
    /\ timers[1] = 0
    /\ isCopied' = IF Len(timers) = 1 THEN FALSE ELSE isCopied
    /\ timers' = Tail(timers)
    /\ UNCHANGED <<clipboard, sinceCopy, toasts, status, requests>>
    /\ UNCHANGED <<guardVars, settingsVars, renderVars, storeVars, earlierVars, cacheVars, shellVars, pageVars>>

\* The oldest timeout is due and runs: setIsCopied(false).
copyTimeout ==
    /\ timers # <<>>
    /\ timers[1] = 0
    /\ isCopied' = FALSE
    /\ timers' = Tail(timers)
    /\ UNCHANGED <<clipboard, sinceCopy, toasts, status, requests>>
    /\ UNCHANGED <<guardVars, settingsVars, renderVars, storeVars, earlierVars, cacheVars, shellVars, pageVars>>

UiNext ==
    \/ submitMessage
    \/ streamStart
    \/ streamFinish
    \/ \E message \in ErrorMessages : streamError(message)
    \/ \E i \in 1..(2 * MaxRequests) : handleCopy(i)
    \/ \E d \in Durations : elapse(d)
    \/ copyTimeout

(***************************************************************************)
(* The stores of the chat hook: useChat keeps one message list per hook id *)
(* and every component instance that passes the same id reads and writes   *)
(* the same list.                                                          *)
(***************************************************************************)
MaxListed == 2      \* messages kept under one hook id

Slots == {1, 2}

\* The `id` option of useChat: the literal 'chat' in layout.tsx and
\* part_001, the chatId prop in Chat.tsx.
useChatId(v, chatId) ==
    CASE v = "layout" -> "chat"
      [] v = "part_001" -> "chat"
      [] v = "Chat" -> chatId

HookIds == ChatIds \cup {"chat"}

Unmounted == [mounted |-> FALSE, variant |-> "", chatId |-> "", hookId |-> ""]

StoreInit ==
    /\ mounts = [slot \in Slots |-> Unmounted]
    /\ lists = [id \in HookIds |-> <<>>]

\* A chat component is mounted with props chatId and calls useChat.
mountChat(slot, v, chatId) ==
    /\ ~mounts[slot].mounted
    /\ mounts' = [mounts EXCEPT ![slot] =
           [mounted |-> TRUE, variant |-> v, chatId |-> chatId,
            hookId |-> useChatId(v, chatId)]]
    /\ UNCHANGED lists
    /\ UNCHANGED <<guardVars, settingsVars, renderVars, uiVars, earlierVars, cacheVars, shellVars, pageVars>>

\* The component is unmounted; the list stays in the hook's store.
unmountChat(slot) ==
    /\ mounts[slot].mounted
    /\ mounts' = [mounts EXCEPT ![slot] = Unmounted]
    /\ UNCHANGED lists
    /\ UNCHANGED <<guardVars, settingsVars, renderVars, uiVars, earlierVars, cacheVars, shellVars, pageVars>>

\* A message of the instance's chat is added to the list under its hook id.
hookAppend(slot) ==
    /\ mounts[slot].mounted
    /\ Len(lists[mounts[slot].hookId]) < MaxListed
    /\ lists' = [lists EXCEPT ![mounts[slot].hookId] = Append(@, mounts[slot].chatId)]
    /\ UNCHANGED mounts
    /\ UNCHANGED <<guardVars, settingsVars, renderVars, uiVars, earlierVars, cacheVars, shellVars, pageVars>>

StoreNext ==
    \/ \E slot \in Slots, v \in Variants, chatId \in ChatIds : mountChat(slot, v, chatId)
    \/ \E slot \in Slots : unmountChat(slot)
    \/ \E slot \in Slots : hookAppend(slot)

\* ---- the cache machine's states and steps ----
CacheParked ==
    /\ chatIdProp = "chat-a"
    /\ currentChatId = "chat-a"
    /\ cache = [key \in CacheKeys |-> 0]

CacheInit ==
    /\ chatIdProp \in ChatIds
    /\ currentChatId \in RouteIds
    /\ cache = [key \in CacheKeys |-> 0]

\* A client-side navigation changes the route's id while no request is in
\* flight; the component renders with the new useParams().
navigate(id) ==
    /\ status \in {"ready", "error"}
    /\ id # currentChatId
    /\ currentChatId' = id
    /\ UNCHANGED <<chatIdProp, cache>>
    /\ UNCHANGED <<guardVars, settingsVars, renderVars, uiVars, storeVars, earlierVars, shellVars, pageVars>>

CacheNext ==
    \/ submitMessage
    \/ streamStart
    \/ streamFinish
    \/ \E id \in RouteIds : navigate(id)

(***************************************************************************)
(* The window size and the sidebar: the effect that registers the resize   *)
(* listener, and the controls that open and close the sidebar.             *)
(***************************************************************************)
\* window.innerWidth: a phone, the widths on either side of the breakpoint
\* and a desktop
Widths == {375, 767, 768, 1280}

\* the handler closing the sidebar on a mobile width
checkMobile_closesOnMobile(width, open) ==
    [isMobile |-> width < 768, sidebarOpen |-> ~(width < 768)]

\* checkMobile / handleResize: const mobile = window.innerWidth < 768;
\* setIsMobile(mobile); if (!mobile) setSidebarOpen(true);
checkMobile(width, open) ==
    LET mobile == width < 768
    IN  [isMobile |-> mobile, sidebarOpen |-> IF ~mobile THEN TRUE ELSE open]

ShellInit ==
    /\ shellPc = "rendered"
    /\ innerWidth \in Widths
    /\ prevWidth = innerWidth
    /\ isMobile = FALSE
    /\ sidebarOpen = FALSE
    /\ listeners = 0

ShellParked ==
    /\ shellPc = "rendered"
    /\ innerWidth = 1280
    /\ prevWidth = 1280
    /\ isMobile = FALSE
    /\ sidebarOpen = FALSE
    /\ listeners = 0

\* useEffect(..., []) after the first render: the handler is called once and
\* registered for 'resize'.
mountEffect ==
    /\ shellPc = "rendered"
    /\ shellPc' = "mounted"
    /\ isMobile' = checkMobile(innerWidth, sidebarOpen).isMobile
    /\ sidebarOpen' = checkMobile(innerWidth, sidebarOpen).sidebarOpen
    /\ listeners' = listeners + 1
    /\ UNCHANGED <<innerWidth, prevWidth>>
    /\ UNCHANGED <<guardVars, settingsVars, renderVars, uiVars, storeVars, earlierVars, cacheVars, pageVars>>

\* The window is resized to `width`; the 'resize' event runs the handler if
\* it is registered.
resize(width) ==
    /\ shellPc \in {"rendered", "mounted"}
    /\ width # innerWidth
    /\ innerWidth' = width
    /\ prevWidth' = innerWidth
    /\ IF listeners > 0
       THEN /\ isMobile' = checkMobile(width, sidebarOpen).isMobile
            /\ sidebarOpen' = checkMobile(width, sidebarOpen).sidebarOpen
       ELSE UNCHANGED <<isMobile, sidebarOpen>>
    /\ UNCHANGED <<shellPc, listeners>>
    /\ UNCHANGED <<guardVars, settingsVars, renderVars, uiVars, storeVars, earlierVars, cacheVars, pageVars>>

\* toggleSidebar of part_001 and Chat.tsx, bound to the menu button
\* (md:hidden), to the close button ({isMobile && ...}) and to the overlay
\* ({isMobile && sidebarOpen && ...}): all of them are shown on a mobile
\* width only.
toggleSidebar ==
    /\ shellPc = "mounted"
    /\ variant \in {"part_001", "Chat"}
    /\ isMobile
    /\ sidebarOpen' = ~sidebarOpen
    /\ UNCHANGED <<shellPc, innerWidth, prevWidth, isMobile, listeners>>
    /\ UNCHANGED <<guardVars, settingsVars, renderVars, uiVars, storeVars, earlierVars, cacheVars, pageVars>>

\* layout.tsx: <Sheet open={sidebarOpen} onOpenChange={setSidebarOpen}> under
\* {isMobile && ...}, and the close button (md:hidden) that calls
\* setSidebarOpen(false).
onOpenChange(open) ==
    /\ shellPc = "mounted"
    /\ variant = "layout"
    /\ isMobile
    /\ sidebarOpen' = open
    /\ UNCHANGED <<shellPc, innerWidth, prevWidth, isMobile, listeners>>
    /\ UNCHANGED <<guardVars, settingsVars, renderVars, uiVars, storeVars, earlierVars, cacheVars, pageVars>>

\* The component is unmounted: the effect's cleanup removes the listener.
unmountShell ==
    /\ shellPc = "mounted"
    /\ shellPc' = "unmounted"
    /\ listeners' = listeners - 1
    /\ UNCHANGED <<innerWidth, prevWidth, isMobile, sidebarOpen>>
    /\ UNCHANGED <<guardVars, settingsVars, renderVars, uiVars, storeVars, earlierVars, cacheVars, pageVars>>

\* The component is mounted again: a new instance with its initial state.
mountShell ==
    /\ shellPc = "unmounted"
    /\ shellPc' = "rendered"
    /\ isMobile' = FALSE
    /\ sidebarOpen' = FALSE
    /\ UNCHANGED <<innerWidth, prevWidth, listeners>>
    /\ UNCHANGED <<guardVars, settingsVars, renderVars, uiVars, storeVars, earlierVars, cacheVars, pageVars>>

ShellNext ==
    \/ mountEffect
    \/ \E width \in Widths : resize(width)
    \/ toggleSidebar
    \/ \E open \in BOOLEAN : onOpenChange(open)
    \/ unmountShell
    \/ mountShell

(***************************************************************************)
(* The welcome screen of part_001 and Chat.tsx, the textarea of Chat.tsx   *)
(* and the search form of the landing page's Banner.  Texts are sequences  *)
(* of characters.                                                          *)
(***************************************************************************)
MaxInput == 2       \* characters of a typed text

\* The variants with a welcome flag; layout.tsx tests messages.length inline.
WelcomeVariants == {"part_001", "Chat"}

\* What the user types into the textarea and into the search field.
InputChars == {" ", "\n", "a"}
QueryChars == {" ", "&", "a"}

\* action.example of a quick action
Example == <<"a", " ", "a">>

\* String.prototype.trim: white space and line terminators are removed from
\* both ends.
WhiteSpace == {" ", "\n", "\t"}

RECURSIVE TrimStart(_)
TrimStart(s) ==
    IF s # <<>> /\ Head(s) \in WhiteSpace THEN TrimStart(Tail(s)) ELSE s

RECURSIVE TrimEnd(_)
TrimEnd(s) ==
    IF s # <<>> /\ s[Len(s)] \in WhiteSpace
    THEN TrimEnd(SubSeq(s, 1, Len(s) - 1))
    ELSE s

\* the text taken as it is
trim_none(s) == s

trim(s) == TrimEnd(TrimStart(s))

\* encodeURIComponent, character by character: letters stay, the others are
\* percent-encoded.
encodeURIComponent(s) ==
    [i \in 1..Len(s) |->
        CASE s[i] = " " -> "%20"
          [] s[i] = "&" -> "%26"
          [] s[i] = "\n" -> "%0A"
          [] s[i] = "\t" -> "%09"
          [] OTHER -> s[i]]

\* the landing page's own address
Landing == <<"/">>

\* `/chat?q=${encodeURIComponent(searchQuery)}`
chatUrl(query) == <<"/chat?q=">> \o encodeURIComponent(query)

\* isLoading of useChat
isLoading == status \in {"submitted", "streaming"}

\* <Textarea disabled={isLoading}>
textareaDisabled == isLoading

\* <Button type="submit" disabled={!input.trim() || isLoading}>
sendDisabled == trim(input) = <<>> \/ isLoading

\* the effect has not run yet
NotRun == -1

PageInit ==
    /\ page \in {"landing", "chat"}
    /\ showWelcome = TRUE
    /\ input = <<>>
    /\ effectLength = NotRun
    /\ lastEvent = "none"
    /\ searchQuery = <<>>
    /\ href = Landing

PageParked ==
    /\ page = "chat"
    /\ showWelcome = TRUE
    /\ input = <<>>
    /\ effectLength = NotRun
    /\ lastEvent = "none"
    /\ searchQuery = <<>>
    /\ href = Landing

\* the effect setting the flag to whether the list is empty
welcomeEffect_tracksEmptiness ==
    /\ page = "chat"
    /\ variant \in WelcomeVariants
    /\ effectLength # Len(messages)
    /\ effectLength' = Len(messages)
    /\ showWelcome' = (Len(messages) = 0)
    /\ UNCHANGED <<page, input, lastEvent, searchQuery, href>>
    /\ UNCHANGED <<guardVars, settingsVars, renderVars, uiVars, storeVars, earlierVars, cacheVars, shellVars>>

\* useEffect(() => { if (messages.length > 0) setShowWelcome(false) },
\* [messages.length]): it runs after the first render and after a render in
\* which messages.length has changed.
welcomeEffect ==
    /\ page = "chat"
    /\ variant \in WelcomeVariants
    /\ effectLength # Len(messages)
    /\ effectLength' = Len(messages)
    /\ showWelcome' = IF Len(messages) > 0 THEN FALSE ELSE showWelcome
    /\ UNCHANGED <<page, input, lastEvent, searchQuery, href>>
    /\ UNCHANGED <<guardVars, settingsVars, renderVars, uiVars, storeVars, earlierVars, cacheVars, shellVars>>

\* handleQuickAction, bound to the cards of the welcome screen.  part_001
\* looks the textarea up in the document (`found`) and does nothing without
\* it; Chat.tsx hands the example to handleInputChange.
handleQuickAction(found) ==
    /\ page = "chat"
    /\ variant \in WelcomeVariants
    /\ showWelcome
    /\ variant = "Chat" => found
    /\ lastEvent' = IF found THEN "quick" ELSE "quick, no textarea"
    /\ showWelcome' = IF found THEN FALSE ELSE showWelcome
    /\ input' = IF variant = "Chat" THEN Example ELSE input
    /\ UNCHANGED <<page, effectLength, searchQuery, href>>
    /\ UNCHANGED <<guardVars, settingsVars, renderVars, uiVars, storeVars, earlierVars, cacheVars, shellVars>>

\* handleInputChange: the user edits the textarea of Chat.tsx
handleInputChange(text) ==
    /\ page = "chat"
    /\ variant = "Chat"
    /\ ~textareaDisabled
    /\ input' = text
    /\ lastEvent' = "change"
    /\ UNCHANGED <<page, showWelcome, effectLength, searchQuery, href>>
    /\ UNCHANGED <<guardVars, settingsVars, renderVars, uiVars, storeVars, earlierVars, cacheVars, shellVars>>

\* handleSubmit of the chat hook: the input becomes a user message, the
\* request is sent and the input is cleared.
handleSubmit ==
    /\ requests' = requests + 1
    /\ status' = "submitted"
    /\ pushMessage("user", FALSE, [defined |-> FALSE, items |-> <<>>], timeOf(clock))
    /\ input' = <<>>
    /\ UNCHANGED <<isCopied, clipboard, timers, sinceCopy, toasts>>

\* onSubmit: if (input.trim()) { setShowWelcome(false); handleSubmit(e); }
onSubmit ==
    IF trim(input) # <<>>
    THEN /\ showWelcome' = FALSE
         /\ handleSubmit
    ELSE UNCHANGED <<showWelcome, input, renderVars, uiVars>>

\* onKeyDown of the textarea for the Enter key: without Shift the default is
\* prevented and, if (input.trim()), onSubmit is called; with Shift the
\* textarea takes the line break.
onKeyDown(shiftKey) ==
    /\ page = "chat"
    /\ variant = "Chat"
    /\ ~textareaDisabled
    /\ requests < MaxRequests
    /\ IF shiftKey
       THEN /\ Len(input) < MaxInput
            /\ input' = Append(input, "\n")
            /\ lastEvent' = "Shift+Enter"
            /\ UNCHANGED <<showWelcome, renderVars, uiVars>>
       ELSE /\ lastEvent' = "Enter"
            /\ IF trim(input) # <<>>
               THEN onSubmit
               ELSE UNCHANGED <<showWelcome, input, renderVars, uiVars>>
    /\ UNCHANGED <<page, effectLength, searchQuery, href>>
    /\ UNCHANGED <<guardVars, settingsVars, storeVars, earlierVars, cacheVars, shellVars>>

\* A click on the send button submits the form: onSubmit runs.
clickSend ==
    /\ page = "chat"
    /\ variant = "Chat"
    /\ ~sendDisabled
    /\ requests < MaxRequests
    /\ lastEvent' = "click"
    /\ onSubmit
    /\ UNCHANGED <<page, effectLength, searchQuery, href>>
    /\ UNCHANGED <<guardVars, settingsVars, storeVars, earlierVars, cacheVars, shellVars>>

\* part_001: the user's text is sent by <MessageInput>.
messageInputSubmit ==
    /\ page = "chat"
    /\ variant = "part_001"
    /\ submitMessage

\* The landing page: onChange of the search field
setSearchQuery(text) ==
    /\ page = "landing"
    /\ searchQuery' = text
    /\ lastEvent' = "change"
    /\ UNCHANGED <<page, showWelcome, input, effectLength, href>>
    /\ UNCHANGED <<guardVars, settingsVars, renderVars, uiVars, storeVars, earlierVars, cacheVars, shellVars>>

\* Banner.handleSearch: the search form is submitted
handleSearch ==
    /\ page = "landing"
    /\ lastEvent' = "search"
    /\ IF trim(searchQuery) # <<>>
       THEN /\ href' = chatUrl(searchQuery)
            /\ page' = "navigated"
       ELSE UNCHANGED <<href, page>>
    /\ UNCHANGED <<showWelcome, input, effectLength, searchQuery>>
    /\ UNCHANGED <<guardVars, settingsVars, renderVars, uiVars, storeVars, earlierVars, cacheVars, shellVars>>

\* currentChat (initialMessages) holds a stored message: the list is not
\* empty when the component is first rendered.
initialMessage ==
    /\ page = "chat"
    /\ effectLength = NotRun
    /\ lastEvent = "none"
    /\ status = "ready"
    /\ requests = 0
    /\ loadStoredMessage("assistant", FALSE, [defined |-> FALSE, items |-> <<>>])

PageNext ==
    \/ welcomeEffect
    \/ \E found \in BOOLEAN : handleQuickAction(found)
    \/ \E text \in SeqsUpTo(InputChars, MaxInput) : handleInputChange(text)
    \/ \E shiftKey \in BOOLEAN : onKeyDown(shiftKey)
    \/ clickSend
    \/ messageInputSubmit
    \/ initialMessage
    \/ page = "chat" /\ streamStart
    \/ page = "chat" /\ streamFinish
    \/ \E text \in SeqsUpTo(QueryChars, MaxInput) : setSearchQuery(text)
    \/ handleSearch

(***************************************************************************)
(* The specifications.  Each runs one machine and parks the others.        *)
(***************************************************************************)
SettingsParked ==
    /\ variant = "layout"
    /\ initialModelType = "standard"
    /\ initialSelectedOption = "gpt"
    /\ optimisticModelType = "standard"
    /\ optimisticOption = "gpt"
    /\ apiEndpoint = "/api/chat"
    /\ hookApi = "/api/chat"
    /\ inputApiEndpoint = "/api/chat"
    /\ pending = <<>>
    /\ queued = NoneQueued
    /\ chosen = [modelType |-> "standard", option |-> "gpt"]
    /\ issued = NotIssued

InitGuard == GuardInit /\ SettingsParked /\ RenderInit /\ UiInit /\ StoreInit /\ EarlierParked /\ CacheParked /\ ShellParked /\ PageParked
SpecGuard == InitGuard /\ [][GuardNext]_vars

InitSettings == GuardInit /\ SettingsInit /\ RenderInit /\ UiInit /\ StoreInit /\ EarlierParked /\ CacheParked /\ ShellParked /\ PageParked
SpecSettings == InitSettings /\ [][SettingsNext]_vars

\* The settings machine when every setModelSettings call is fulfilled.
SettingsFulfilledNext ==
    \/ \E val \in ModelTypes : handleModelTypeChange(val)
    \/ \E val \in Options : handleOptionChange(val)
    \/ \E i \in 1..MaxPending : persistSucceeds(i)

SpecSettingsFulfilled == InitSettings /\ [][SettingsFulfilledNext]_vars

InitRender == GuardInit /\ SettingsParked /\ RenderInit /\ UiInit /\ StoreInit /\ EarlierParked /\ CacheParked /\ ShellParked /\ PageParked
SpecRender == InitRender /\ [][RenderNext]_vars

\* A chat component of any variant with fixed props.
SettingsMounted ==
    /\ SettingsInit
    /\ initialModelType = "standard"
    /\ initialSelectedOption = "gpt"

SpecRerender == InitRender /\ [][RerenderNext]_vars

InitUi == GuardInit /\ SettingsMounted /\ RenderInit /\ UiInit /\ StoreInit /\ EarlierParked /\ CacheParked /\ ShellParked /\ PageParked
SpecUi == InitUi /\ [][UiNext]_vars

InitStore == GuardInit /\ SettingsParked /\ RenderInit /\ UiInit /\ StoreInit /\ EarlierParked /\ CacheParked /\ ShellParked /\ PageParked
SpecStore == InitStore /\ [][StoreNext]_vars

InitEarlier ==
    /\ GuardInit /\ SettingsParked /\ RenderInit /\ UiInit /\ StoreInit
    /\ EarlierInit /\ CacheParked /\ ShellParked /\ PageParked
SpecEarlier == InitEarlier /\ [][EarlierNext]_vars

InitCache ==
    /\ GuardInit /\ SettingsMounted /\ RenderInit /\ UiInit /\ StoreInit
    /\ EarlierParked /\ CacheInit /\ ShellParked /\ PageParked
SpecCache == InitCache /\ [][CacheNext]_vars

InitShell ==
    /\ GuardInit /\ SettingsMounted /\ RenderInit /\ UiInit /\ StoreInit
    /\ EarlierParked /\ CacheParked /\ ShellInit /\ PageParked
SpecShell == InitShell /\ [][ShellNext]_vars

\* A chat component with a welcome screen, or the landing page.
InitPage ==
    /\ GuardInit /\ SettingsMounted /\ RenderInit /\ UiInit /\ StoreInit
    /\ EarlierParked /\ CacheParked /\ ShellParked /\ PageInit
    /\ variant \in WelcomeVariants
SpecPage == InitPage /\ [][PageNext]_vars

\* React runs the effects of a committed render.
SpecPageFair == SpecPage /\ WF_vars(welcomeEffect)

Init ==
    /\ GuardInit /\ SettingsInit /\ RenderInit /\ UiInit /\ StoreInit
    /\ EarlierInit /\ CacheInit /\ ShellInit /\ PageInit

Next == GuardNext \/ SettingsNext \/ RerenderNext \/ UiNext \/ StoreNext \/ EarlierNext \/ CacheNext \/ ShellNext \/ PageNext

Spec == Init /\ [][Next]_vars

(***************************************************************************)
(* Claims about the route guard (SpecGuard).                               *)
(***************************************************************************)
\* The prefix test of the claims, written on the sample paths themselves.
HasProtectedPrefix(path) == StartsWith(path, P_protected) \/ StartsWith(path, P_chat)

\* C1: for a request whose path starts with '/protected' or '/chat', when the
\* provider resolves no user the guard returns a redirect to '/signin', and
\* when it resolves a user the guard returns the pass-through response.
C1_ProtectedGate ==
    (gpc = "returned" /\ HasProtectedPrefix(request.pathname)) =>
        IF session = "none"
        THEN /\ result.kind = "redirect"
             /\ result.location.pathname = P_signin
        ELSE /\ result.kind = "next"
             /\ result = response

\* A protected request without a user has been redirected.
C1_Witness ==
    /\ gpc = "returned"
    /\ request.pathname = P_chat_id
    /\ session = "none"
    /\ result.kind = "redirect"

\* The sample paths that start with one of the two prefixes.
ProtectedSamples ==
    {P_chat, P_chat_id, P_chatter, P_chat_api, P_protected, P_protected_x}

\* C2: a path is protected exactly when it starts with '/protected' or
\* '/chat', case-sensitively; for every other path the guard returns the
\* pass-through response whether getUser resolved a user or none.
C2_PublicPassThrough ==
    /\ guardRan =>
           (isProtectedRoute(request.pathname) <=> request.pathname \in ProtectedSamples)
    /\ (gpc = "returned" /\ ~HasProtectedPrefix(request.pathname)) =>
           /\ result.kind = "next"
           /\ result = response
    /\ (gpc = "returned" /\ result.kind = "redirect") =>
           HasProtectedPrefix(request.pathname)

\* '/Chat' differs from the prefix in case only and passes without a user.
C2_Witness ==
    /\ gpc = "returned"
    /\ request.pathname = P_Chat
    /\ session = "none"
    /\ result.kind = "next"

\* The requests the claim names: a static asset, an image optimization path,
\* favicon.ico, an API route, a font file, sitemap.xml, robots.txt, a
\* .well-known URI.
C3_Named(path) ==
    \/ StartsWith(path, <<"/", "_", "n", "e", "x", "t", "/", "s", "t", "a", "t", "i", "c">>)
    \/ StartsWith(path, P_next_image)
    \/ path = P_favicon
    \/ StartsWith(path, <<"/", "a", "p", "i", "/">>)
    \/ StartsWith(path, <<"/", "f", "o", "n", "t", "s", "/">>)
    \/ path = P_sitemap
    \/ path = P_robots
    \/ StartsWith(path, <<"/", ".", "w", "e", "l", "l", "-", "k", "n", "o", "w", "n", "/">>)

\* C3 as stated: the guard is skipped, and the provider not called, for the
\* named requests, and the guard executes for every other path.
C3_Original ==
    gpc # "idle" =>
        /\ C3_Named(request.pathname) => (~guardRan /\ providerCalls = 0)
        /\ ~C3_Named(request.pathname) => guardRan

\* The sample paths at whose start (after the '/') an excluded name stands,
\* with any character for its dot.
C3_SkippedSamples ==
    {P_next_static, P_next_image, P_favicon, P_faviconXico, P_api_chat,
     P_fonts_a, P_sitemap, P_robots, P_robots_bak, P_wellknown_x}

\* C3 amended: the guard is skipped, and the provider not called, for the
\* named requests; it is also skipped for a path that only begins with
\* favicon.ico, sitemap.xml or robots.txt or has another character for the
\* dot of these names; for every other path the guard executes and calls
\* the provider once.
C3_MatcherExclusions ==
    gpc # "idle" =>
        /\ C3_Named(request.pathname) => (~guardRan /\ providerCalls = 0)
        /\ guardRan <=> request.pathname \notin C3_SkippedSamples
        /\ providerCalls = IF guardRan THEN 1 ELSE 0

\* An API route was requested and the guard did not run.
C3_Witness ==
    /\ gpc = "skipped"
    /\ request.pathname = P_api_chat
    /\ ~guardRan
    /\ providerCalls = 0

\* C4: after one or more setAll calls during one execution, every cookie
\* passed to any of them is on the request's cookies and on the response the
\* guard returns when it passes the request through.
C4_CookiesSurvive ==
    (gpc = "returned" /\ result.kind = "next" /\ setAllCount >= 1) =>
        \A n \in CookieNames :
            passed[n] # Absent =>
                /\ request.cookies[n] = passed[n]
                /\ result.cookies[n].value = passed[n]

\* C5: when auth.getUser throws, the guard still ends in a response; the
\* exception does not escape.
C5_NoEscapingException ==
    gpc = "threw" => result.kind \in {"next", "redirect", "error-response"}

(***************************************************************************)
(* Claims about the settings (SpecSettings).                               *)
(***************************************************************************)
\* The endpoint the claim gives for a model type.
C6_Table(modelType) ==
    IF modelType = "perplex" THEN "/api/perplexity"
    ELSE IF modelType = "website" THEN "/api/websitechat"
    ELSE "/api/chat"

C6_Handed(modelType) ==
    /\ apiEndpoint = C6_Table(modelType)
    /\ hookApi = C6_Table(modelType)
    /\ variant # "Chat" => inputApiEndpoint = C6_Table(modelType)

\* C6: in each of the three components the endpoint handed to the chat hook
\* and to the input control is the one the table gives for the current local
\* modelType ('perplex', 'website', anything else), and right after a change
\* of the modelType it is the one the table gives for the new value.
C6_EndpointSelection ==
    /\ [](C6_Handed(optimisticModelType))
    /\ [][\A val \in ModelTypes :
             handleModelTypeChange(val) =>
                 /\ hookApi' = C6_Table(val)
                 /\ variant # "Chat" => inputApiEndpoint' = C6_Table(val)]_vars

\* The model type was changed to 'perplex' and the persist call is in flight.
C6_Witness ==
    /\ initialModelType = "standard"
    /\ queued.modelType
    /\ optimisticModelType = "perplex"
    /\ hookApi = "/api/perplexity"
    /\ pending # <<>>

(***************************************************************************)
(* Claims about the rendering (SpecRender).                                *)
(***************************************************************************)
\* The variants that partition a message's parts.
PartVariants == {"layout", "part_001"}

PartsOf(m, t) == {k \in 1..Len(m.parts) : m.parts[k].type = t}

SectionKinds(v, i) ==
    {view[v][i].cardContent[k].kind : k \in 1..Len(view[v][i].cardContent)}

Renderers(v, i) ==
    UNION { {view[v][i].cardContent[k].items[j].renderer :
                j \in 1..Len(view[v][i].cardContent[k].items)} :
            k \in 1..Len(view[v][i].cardContent) }

\* C7: the rendered view of a message with role 'user' holds no reasoning
\* content and no tool-invocation section, whatever parts its data holds.
C7_UserView ==
    \A v \in Variants : \A i \in 1..Len(messages) :
        messages[i].role = "user" =>
            /\ SectionKinds(v, i) \cap {"reasoning", "tools"} = {}
            /\ Renderers(v, i) \cap
                   {"ReasoningContent", "DocumentSearchTool", "WebsiteSearchTool"} = {}

\* A user message whose data holds a reasoning part and a tool invocation
\* has been rendered.
C7_Witness ==
    /\ Len(messages) >= 1
    /\ messages[1].role = "user"
    /\ PartsOf(messages[1], "reasoning") # {}
    /\ PartsOf(messages[1], "tool-invocation") # {}
    /\ Len(view["layout"]) = Len(messages)

\* Bucket b holds exactly the parts of m tagged t, each once, in the order of
\* the part list (`data` is a part's position there).
C8_BucketIs(b, m, t) ==
    /\ \A k \in 1..Len(b) : b[k].type = t /\ b[k] = m.parts[b[k].data]
    /\ \A j, k \in 1..Len(b) : j < k => b[j].data < b[k].data
    /\ \A p \in PartsOf(m, t) : \E k \in 1..Len(b) : b[k].data = p

ChildData(v, i) ==
    UNION { {view[v][i].cardContent[k].items[j].data :
                j \in 1..Len(view[v][i].cardContent[k].items)} :
            k \in 1..Len(view[v][i].cardContent) }

BucketTags == {"text", "reasoning", "source", "tool-invocation"}

\* C8: for an assistant message each of the four buckets holds exactly the
\* parts of its tag, in their original order; a part with another tag is in
\* no bucket and nothing of it is rendered; without a part list the four
\* buckets are empty.
C8_Partition ==
    \A v \in PartVariants : \A i \in 1..Len(messages) :
        messages[i].role = "assistant" =>
            LET m == messages[i]
                b == buckets[v][i]
            IN  /\ C8_BucketIs(b.textParts, m, "text")
                /\ C8_BucketIs(b.reasoningParts, m, "reasoning")
                /\ C8_BucketIs(b.sourceParts, m, "source")
                /\ C8_BucketIs(b.toolInvocationParts, m, "tool-invocation")
                /\ \A k \in 1..Len(m.parts) :
                       m.parts[k].type \notin BucketTags => k \notin ChildData(v, i)
                /\ ~m.hasParts => b = NoBuckets

\* An assistant message with two text parts around a part of another tag.
C8_Witness ==
    /\ Len(messages) >= 1
    /\ messages[1].role = "assistant"
    /\ Len(messages[1].parts) = 3
    /\ messages[1].parts[1].type = "text"
    /\ messages[1].parts[2].type = "step-start"
    /\ messages[1].parts[3].type = "text"
    /\ Len(buckets["layout"][1].textParts) = 2

\* C9 as stated: for a user message the tool-invocation bucket and the
\* reasoning bucket are both empty.
C9_Original ==
    \A v \in PartVariants : \A i \in 1..Len(messages) :
        messages[i].role = "user" =>
            /\ buckets[v][i].toolInvocationParts = <<>>
            /\ buckets[v][i].reasoningParts = <<>>

\* C9 amended: for a user message the tool-invocation bucket is empty; the
\* reasoning bucket holds the message's reasoning parts, and none of them is
\* rendered.
C9_UserBuckets ==
    \A v \in PartVariants : \A i \in 1..Len(messages) :
        messages[i].role = "user" =>
            /\ buckets[v][i].toolInvocationParts = <<>>
            /\ Len(buckets[v][i].reasoningParts) =
                   Cardinality(PartsOf(messages[i], "reasoning"))
            /\ "reasoning" \notin SectionKinds(v, i)

\* A user message with a reasoning part and a tool invocation: the first is
\* in its bucket, the second is not.
C9_Witness ==
    /\ Len(messages) >= 1
    /\ messages[1].role = "user"
    /\ PartsOf(messages[1], "tool-invocation") # {}
    /\ Len(buckets["part_001"][1].reasoningParts) >= 1
    /\ buckets["part_001"][1].toolInvocationParts = <<>>

\* The place of a section in the fixed order.
C10_Rank(kind) ==
    CASE kind = "text" -> 1
      [] kind = "reasoning" -> 2
      [] kind = "sources" -> 3
      [] kind = "attachments" -> 4
      [] kind = "tools" -> 5

\* C10: the sections of a rendered message stand in the order text,
\* reasoning, sources, attachments, tools, whatever the order of the parts,
\* and a message has at most one tool-invocation section.
C10_SectionOrder ==
    \A v \in PartVariants : \A i \in 1..Len(messages) :
        LET c == view[v][i].cardContent
        IN  /\ \A j, k \in 1..Len(c) :
                   j < k => C10_Rank(c[j].kind) <= C10_Rank(c[k].kind)
            /\ Cardinality({k \in 1..Len(c) : c[k].kind = "tools"}) <= 1

\* The parts arrive as tool invocation, reasoning, text and are rendered as
\* text, reasoning, tools.
C10_Witness ==
    /\ Len(messages) >= 1
    /\ Len(messages[1].parts) = 3
    /\ messages[1].parts[1].type = "tool-invocation"
    /\ messages[1].parts[2].type = "reasoning"
    /\ messages[1].parts[3].type = "text"
    /\ Len(view["layout"][1].cardContent) = 3
    /\ view["layout"][1].cardContent[1].kind = "text"
    /\ view["layout"][1].cardContent[2].kind = "reasoning"
    /\ view["layout"][1].cardContent[3].kind = "tools"

\* The renderer the claim names for a tool name; "" for any other name.
C11_RendererOf(toolName) ==
    IF toolName = "searchUserDocument" THEN "DocumentSearchTool"
    ELSE IF toolName = "websiteSearchTool" THEN "WebsiteSearchTool"
    ELSE ""

\* The children of the tool-invocation section of message i (none without one).
C11_ToolItems(v, i) ==
    LET t == SelectSeq(view[v][i].cardContent, LAMBDA x : x.kind = "tools")
    IN  IF t = <<>> THEN <<>> ELSE t[1].items

\* C11: within the tool-invocation section every invocation of the bucket
\* with tool name 'searchUserDocument' or 'websiteSearchTool' is rendered
\* exactly once, by the renderer of its name, in the order of the bucket; an
\* invocation with any other tool name renders nothing.
C11_ToolDispatch ==
    \A v \in PartVariants : \A i \in 1..Len(messages) :
        LET b == buckets[v][i].toolInvocationParts
            items == C11_ToolItems(v, i)
        IN  /\ \A k \in 1..Len(b) :
                   Cardinality({j \in 1..Len(items) : items[j].data = b[k].data}) =
                       IF C11_RendererOf(b[k].toolName) = "" THEN 0 ELSE 1
            /\ \A j \in 1..Len(items) :
                   \E k \in 1..Len(b) :
                       /\ b[k].data = items[j].data
                       /\ items[j].renderer = C11_RendererOf(b[k].toolName)
            /\ \A j, k \in 1..Len(items) : j < k => items[j].data < items[k].data
            /\ \A j, k \in 1..Len(b) : j < k => b[j].data < b[k].data

\* An assistant message with a website search, an unknown tool and a document
\* search: two children are rendered, in that order.
C11_Witness ==
    /\ Len(messages) >= 1
    /\ messages[1].role = "assistant"
    /\ Len(messages[1].parts) = 3
    /\ messages[1].parts[1].toolName = "websiteSearchTool"
    /\ messages[1].parts[2].toolName = "unknownTool"
    /\ messages[1].parts[3].toolName = "searchUserDocument"
    /\ C11_ToolItems("part_001", 1) =
           << Child("WebsiteSearchTool", 1), Child("DocumentSearchTool", 3) >>

(***************************************************************************)
(* Claims about the optimistic settings (SpecSettings).                    *)
(***************************************************************************)
\* The component displays the value persist call `c` was issued for.
C12_Displayed(c) ==
    IF c.field = "modelType"
    THEN optimisticModelType = c.modelType
    ELSE optimisticOption = c.option

\* A change sets the local value and appends exactly one persist call.
C12_ChangeStep ==
    /\ \A val \in ModelTypes :
           handleModelTypeChange(val) =>
               /\ optimisticModelType' = val
               /\ pending' = Append(pending,
                      [field |-> "modelType", modelType |-> val,
                       option |-> optimisticOption])
    /\ \A val \in Options :
           handleOptionChange(val) =>
               /\ optimisticOption' = val
               /\ pending' = Append(pending,
                      [field |-> "option", modelType |-> optimisticModelType,
                       option |-> val])

\* The success of a persist call does not take its value off the display.
C12_SuccessStep ==
    \A i \in 1..MaxPending :
        (persistSucceeds(i) /\ C12_Displayed(pending[i])) =>
            IF pending[i].field = "modelType"
            THEN optimisticModelType' = pending[i].modelType
            ELSE optimisticOption' = pending[i].option

\* C12 as stated: the displayed value equals the new value of a change in
\* every state in which the persist call of that change is in flight.
C12_Original ==
    \A i \in 1..Len(pending) : C12_Displayed(pending[i])

\* The component displays the value chosen last for the field of call `c`.
C12_DisplaysChosen(c) ==
    IF c.field = "modelType"
    THEN optimisticModelType = chosen.modelType
    ELSE optimisticOption = chosen.option

\* C12 amended: a settings change sets the local value and issues exactly
\* one persist call in the same step; while that call is in flight the
\* displayed value is the value chosen last for that field, which is the new
\* value unless the field was changed again; the success of the call does
\* not roll the display back.
C12_SettingsChange ==
    /\ [](\A i \in 1..Len(pending) : C12_DisplaysChosen(pending[i]))
    /\ [][C12_ChangeStep]_vars
    /\ [][C12_SuccessStep]_vars

\* Two changes of the model type are in flight; the later one is displayed.
C12_Witness ==
    /\ Len(pending) = 2
    /\ pending[1].field = "modelType" /\ pending[1].modelType = "perplex"
    /\ pending[2].field = "modelType" /\ pending[2].modelType = "website"
    /\ initialModelType = "standard"
    /\ optimisticModelType = "website"

\* C13: after any sequence of model-type and option changes, with any number
\* of their persist calls in flight and resolving in any order, the pair the
\* component shows is the value the user chose last for each of the two
\* fields.  Checked where every persist call is fulfilled.
C13_LatestIntent ==
    /\ optimisticModelType = chosen.modelType
    /\ optimisticOption = chosen.option

(***************************************************************************)
(* Claims about the chat hook and the local UI state (SpecUi).             *)
(***************************************************************************)
\* The delay the claim gives for each variant, in ms.
C14_Delay(v) == IF v = "layout" THEN 800 ELSE 1000

\* A copy trigger writes the message's content and turns the indicator on.
C14_CopyStep ==
    \A i \in 1..Len(messages) :
        handleCopy(i) =>
            /\ messages[i].role = "assistant"
            /\ clipboard' = messages[i].content
            /\ isCopied' = TRUE

\* C14: a copy trigger on an assistant message writes that message's content
\* to the clipboard and turns the confirmation indicator on; the indicator
\* stays on until the fixed delay (800 ms in layout.tsx, 1000 ms in the
\* others) has passed since that trigger and is off once it has, whatever
\* happens inside the window, further copy triggers included.
C14_CopyConfirmation ==
    /\ [](sinceCopy < C14_Delay(variant) => isCopied)
    /\ []((sinceCopy = C14_Delay(variant) /\ timers = <<>>) => ~isCopied)
    /\ [][C14_CopyStep]_vars

\* The fallback text of each variant.
C15_Fallback(v) ==
    IF v = "layout" THEN "Something went wrong"
    ELSE IF v = "part_001" THEN "An error occurred"
    ELSE "Failed to send message. Please try again."

\* The user messages of the list: one per request the user submitted.
C15_UserMessages == {i \in 1..Len(messages) : messages[i].role = "user"}

\* C15: when the chat stream reports an error the component shows one
\* notification with the error's message, or with the variant's fallback
\* text when the message is empty; the message list and its view, the
\* settings and the other UI flags stay as they were; no request is sent
\* again: the requests sent are those the user submitted.
C15_StreamError ==
    /\ [][\A message \in ErrorMessages :
             streamError(message) =>
                 /\ toasts' = Append(toasts,
                        IF message # "" THEN message ELSE C15_Fallback(variant))
                 /\ toasts'[Len(toasts')] # ""
                 /\ UNCHANGED <<messages, buckets, view>>
                 /\ UNCHANGED settingsVars
                 /\ UNCHANGED <<isCopied, clipboard, timers>>
                 /\ requests' = requests]_vars
    /\ [](requests = Cardinality(C15_UserMessages))

\* The stream of part_001 failed with an empty message while the answer was
\* streaming: the fallback text is shown and both messages are still listed.
C15_Witness ==
    /\ variant = "part_001"
    /\ status = "error"
    /\ toasts = <<"An error occurred">>
    /\ Len(messages) = 2
    /\ requests = 1

(***************************************************************************)
(* Claims about the hook's stores (SpecStore).                             *)
(***************************************************************************)
\* C16: the message list a chat component subscribes to is keyed by the chat
\* id: two mounted instances with different chatId values use different hook
\* ids, and the list under an instance's hook id holds messages of its chat
\* only; in every variant.
C16_KeyedByChatId ==
    /\ \A i, j \in Slots :
           (mounts[i].mounted /\ mounts[j].mounted
                /\ mounts[i].chatId # mounts[j].chatId) =>
               mounts[i].hookId # mounts[j].hookId
    /\ \A i \in Slots :
           mounts[i].mounted =>
               \A k \in 1..Len(lists[mounts[i].hookId]) :
                   lists[mounts[i].hookId][k] = mounts[i].chatId

(***************************************************************************)
(* Further claims about the route guard (SpecGuard).                       *)
(***************************************************************************)
\* The application data and the UI state outside the guard.
C17_ApplicationData == <<settingsVars, renderVars, uiVars, storeVars>>

\* C17 as stated: handling a request never changes the cookies carried by
\* the request, never writes a cookie and changes no application data.
C17_Original ==
    [][gpc = "awaiting" =>
          /\ request'.cookies = request.cookies
          /\ response'.cookies = EmptyResponseJar
          /\ UNCHANGED C17_ApplicationData]_vars

\* The value the last entry for cookie n of a batch carries (Absent if none).
C17_Last(cookiesToSet, n) ==
    LET at == {k \in 1..Len(cookiesToSet) : cookiesToSet[k].name = n}
    IN  IF at = {} THEN Absent
        ELSE cookiesToSet[CHOOSE k \in at : \A j \in at : j <= k].value

\* C17 amended: the guard changes no application data, and the cookies of
\* the request and of the response change only in the provider's setAll
\* callback during getUser: each cookie passed is set on the request and on
\* a new pass-through response, the other cookies of the request stay; when
\* setAll is not called the request keeps its cookies and no cookie is
\* written.
C17_SessionFrame ==
    /\ [][gpc = "awaiting" =>
             /\ UNCHANGED C17_ApplicationData
             /\ setAllCount' = setAllCount =>
                    /\ request' = request
                    /\ response' = response
             /\ setAllCount' # setAllCount =>
                    \A c \in SeqsUpTo(CookieEntries, MaxBatch) :
                        setAll(c) =>
                            \A n \in CookieNames :
                                /\ request'.cookies[n] =
                                       IF C17_Last(c, n) = Absent
                                       THEN request.cookies[n] ELSE C17_Last(c, n)
                                /\ response'.cookies[n].value = C17_Last(c, n)]_vars
    /\ [](setAllCount = 0 =>
              /\ response.cookies = EmptyResponseJar
              /\ result.cookies = EmptyResponseJar)

\* The provider refreshed the access token during getUser: the request and
\* the returned response carry the new value.
C17_Witness ==
    /\ gpc = "returned"
    /\ setAllCount = 1
    /\ passed["sb-access"] = "t2"
    /\ request.cookies["sb-access"] = "t2"
    /\ result.kind = "next"
    /\ result.cookies["sb-access"].value = "t2"

\* C18: the redirect for an unauthenticated protected request targets the
\* path '/signin' on the request's own origin with no query: the location
\* depends on the origin alone, so requests to different protected paths or
\* with different query strings get the same location.
C18_RedirectLocation ==
    result.kind = "redirect" =>
        /\ HasProtectedPrefix(request.pathname)
        /\ session = "none"
        /\ result.location =
               [origin |-> request.origin, pathname |-> P_signin, search |-> ""]

\* The landing page's search navigation to /chat?q=... was redirected.
C18_Witness ==
    /\ gpc = "returned"
    /\ request.pathname = P_chat
    /\ request.search = "?q=drug%20dosing"
    /\ result.kind = "redirect"
    /\ result.location.pathname = P_signin
    /\ result.location.search = ""

(***************************************************************************)
(* Further claims about the optimistic settings (SpecSettings).            *)
(***************************************************************************)
\* C19 as stated: when a persist call fails the local values stay as they
\* are and no error is shown.
C19_Original ==
    [][\A i \in 1..MaxPending :
          persistFails(i) =>
              /\ optimisticModelType' = optimisticModelType
              /\ optimisticOption' = optimisticOption
              /\ toasts' = toasts]_vars

\* C19 amended: when a persist call fails no error is shown and the props
\* stay; the local values stay as they are while another persist call is in
\* flight, and once none is in flight they are rolled back to the props.
C19_PersistFailure ==
    [][\A i \in 1..MaxPending :
          persistFails(i) =>
              /\ toasts' = toasts
              /\ initialModelType' = initialModelType
              /\ initialSelectedOption' = initialSelectedOption
              /\ IF Len(pending) > 1
                 THEN /\ optimisticModelType' = optimisticModelType
                      /\ optimisticOption' = optimisticOption
                 ELSE /\ optimisticModelType' = initialModelType
                      /\ optimisticOption' = initialSelectedOption]_vars

\* The user chose 'perplex', no call is in flight and the props and the
\* display are 'standard': the change failed and was rolled back.
C19_Witness ==
    /\ pending = <<>>
    /\ chosen.modelType = "perplex"
    /\ initialModelType = "standard"
    /\ optimisticModelType = "standard"
    /\ toasts = <<>>

(***************************************************************************)
(* Claims about rendering again (SpecRerender).                            *)
(***************************************************************************)
\* C20: rendering is a deterministic function of the message list: a second
\* render of the same list gives the same buckets and the same view, with
\* the same parts in the same order and with the same keys.
C20_Deterministic ==
    [][rerender => (buckets' = buckets /\ view' = view)]_vars

(***************************************************************************)
(* Further claims about the rendering (SpecRender).                        *)
(***************************************************************************)
\* The renderers found in the sections of one kind of message i.
C21_RenderersIn(v, i, kind) ==
    UNION { {view[v][i].cardContent[k].items[j].renderer :
                j \in 1..Len(view[v][i].cardContent[k].items)} :
            k \in {n \in 1..Len(view[v][i].cardContent) :
                      view[v][i].cardContent[n].kind = kind} }

\* C21: source citations are rendered only for an assistant message whose
\* source bucket is non-empty, and attachments only for a user message with
\* at least one attachment: a user message never shows sources and an
\* assistant message never shows attachments, whatever its data holds.
C21_SourcesAndAttachments ==
    \A v \in Variants : \A i \in 1..Len(messages) :
        LET m == messages[i]
            shown == SectionKinds(v, i)
        IN  /\ "sources" \in shown =>
                   /\ m.role = "assistant"
                   /\ buckets[v][i].sourceParts # <<>>
                   /\ PartsOf(m, "source") # {}
            /\ "attachments" \in shown =>
                   /\ m.role = "user"
                   /\ m.experimental_attachments.defined
                   /\ Len(m.experimental_attachments.items) >= 1
            /\ m.role = "user" => "sources" \notin shown
            /\ m.role = "assistant" => "attachments" \notin shown
            /\ "SourceView" \in Renderers(v, i) =>
                   C21_RenderersIn(v, i, "sources") = {"SourceView"}
            /\ "Link" \in Renderers(v, i) =>
                   C21_RenderersIn(v, i, "attachments") = {"Link"}

\* A user message with a source part and an attachment shows the attachment
\* and no sources.
C21_Witness ==
    /\ Len(messages) >= 1
    /\ messages[1].role = "user"
    /\ PartsOf(messages[1], "source") # {}
    /\ Len(messages[1].experimental_attachments.items) = 1
    /\ buckets["part_001"][1].sourceParts # <<>>
    /\ SectionKinds("part_001", 1) = {"attachments"}

\* C26: the tool-invocation section of a message is rendered if and only if
\* the message is an assistant message with at least one part tagged
\* 'tool-invocation'; it is rendered, with empty content, also when none of
\* those invocations has a recognised tool name.
C26_ToolsSection ==
    \A v \in PartVariants : \A i \in 1..Len(messages) :
        LET m == messages[i]
            invocations == PartsOf(m, "tool-invocation")
        IN  /\ "tools" \in SectionKinds(v, i) <=>
                   (m.role = "assistant" /\ invocations # {})
            /\ ( /\ m.role = "assistant"
                 /\ invocations # {}
                 /\ \A k \in invocations :
                        C11_RendererOf(m.parts[k].toolName) = "" )
               => /\ "tools" \in SectionKinds(v, i)
                  /\ C11_ToolItems(v, i) = <<>>

\* An assistant message whose only tool invocation has an unrecognised name
\* shows the section, and nothing in it.
C26_Witness ==
    /\ Len(messages) >= 1
    /\ messages[1].role = "assistant"
    /\ Len(messages[1].parts) = 2
    /\ messages[1].parts[1].type = "text"
    /\ messages[1].parts[2].toolName = "unknownTool"
    /\ SectionKinds("layout", 1) = {"text", "tools"}
    /\ C11_ToolItems("layout", 1) = <<>>

(***************************************************************************)
(* Claims about the earlier revisions of the guard (SpecEarlier).          *)
(***************************************************************************)
\* C22: in the try/catch revision every matched request gets a pass-through
\* response whatever its path and session cookies, with no redirect and no
\* provider call; when handling throws, the result is a response with status
\* 500 and the error is logged, and no exception escapes.
C22_TryCatchRevision ==
    (revision = "part_000" /\ earlierResult # NothingYet) =>
        /\ earlierResult.kind # "exception"
        /\ earlierResult.kind # "redirect"
        /\ providerCalls = 0
        /\ setAllCount = 0
        /\ earlierResult = NotHandled <=> ~matcher_earlier(earlierRequest.pathname)
        /\ (matcher_earlier(earlierRequest.pathname) /\ thrownAt = "none") =>
               /\ earlierResult.kind = "next"
               /\ earlierResult = PassThrough
        /\ (matcher_earlier(earlierRequest.pathname) /\ thrownAt # "none") =>
               /\ earlierResult.kind = "response"
               /\ earlierResult.status = 500
               /\ consoleLog # <<>>
               /\ consoleLog[Len(consoleLog)].level = "error"
               /\ consoleLog[Len(consoleLog)].arg = <<thrownAt>>

\* A request for a protected path without session cookies has been handled
\* by the try/catch revision while NextResponse.next() threw.
C22_Witness ==
    /\ revision = "part_000"
    /\ earlierRequest.pathname = P_chat
    /\ earlierRequest.cookies = EmptyJar
    /\ thrownAt = "NextResponse.next"
    /\ earlierResult = MiddlewareFailed
    /\ Len(consoleLog) = 2

(***************************************************************************)
(* Further claims about the route guard (SpecGuard).                       *)
(***************************************************************************)
\* C23: the redirect response returned for an unauthenticated protected
\* request carries none of the cookies the provider set through setAll
\* during that execution; cookies reach the client only on a pass-through
\* response.
C23_RedirectDropsCookies ==
    /\ (gpc = "returned" /\ result.kind = "redirect") =>
           /\ isProtectedRoute(request.pathname)
           /\ session = "none"
           /\ \A n \in CookieNames : result.cookies[n] = AbsentCookie
    /\ (\E n \in CookieNames : result.cookies[n] # AbsentCookie) =>
           /\ gpc = "returned"
           /\ result.kind = "next"
           /\ result = response

\* The provider set a cookie during getUser, which then resolved to no user
\* for a protected path: `response` holds the cookie, the redirect does not.
C23_Witness ==
    /\ gpc = "returned"
    /\ result.kind = "redirect"
    /\ setAllCount >= 1
    /\ response.cookies["sb-access"] # AbsentCookie
    /\ result.cookies = EmptyResponseJar

(***************************************************************************)
(* Further claims about the settings (SpecSettingsFulfilled).              *)
(***************************************************************************)
\* The local pair the component displays.
C24_Local == [modelType |-> optimisticModelType, option |-> optimisticOption]

\* A handler runs: the call it issues carries the new value of the changed
\* field and, for the other field, the value of the render the handler was
\* created in.
C24_Carries ==
    Len(pending') = Len(pending) + 1 =>
        LET c == pending'[Len(pending')]
        IN  /\ issued' = [modelType |-> c.modelType, option |-> c.option]
            /\ c.field = "modelType" =>
                   c.modelType = optimisticModelType' /\ c.option = optimisticOption
            /\ c.field = "option" =>
                   c.option = optimisticOption' /\ c.modelType = optimisticModelType

\* C24: each persist call carries the new value of the changed field with
\* the other field's value of the handler's last render; and once every
\* persist call of a sequence of changes has been delivered, the pair carried
\* by the last issued call is the local (modelType, option) pair.
C24_LastIssuedPair ==
    /\ [][C24_Carries]_vars
    /\ []((pending = <<>> /\ issued # NotIssued) => issued = C24_Local)

(***************************************************************************)
(* Further claims about the chat hook and the local UI state (SpecUi).     *)
(***************************************************************************)
\* The messages that have a copy button.
C25_Assistant == {i \in 1..Len(messages) : messages[i].role # "user"}

\* A copy trigger: a timeout is started.
C25_Trigger == Len(timers') = Len(timers) + 1

\* A timeout fires: it leaves the list of pending timeouts.
C25_Fires == timers # <<>> /\ timers' = Tail(timers)

\* C25: there is one copy-confirmation flag per chat component: from a copy
\* trigger on any assistant message until the flag is reset every assistant
\* message shows the confirmation indicator, and the flag is reset by the
\* first pending timer to fire, also when an earlier copy trigger started it.
C25_OneFlag ==
    /\ [](\A i \in C25_Assistant :
              copyIcon(messages[i]) = (IF isCopied THEN "CheckCircle" ELSE "Copy"))
    /\ [](\A i \in 1..Len(messages) \ C25_Assistant : copyIcon(messages[i]) = "none")
    /\ [][ /\ C25_Trigger => isCopied'
           /\ C25_Fires => ~isCopied'
           /\ (isCopied /\ ~isCopied') => (C25_Fires /\ timers[1] = 0)
           /\ (~isCopied /\ isCopied') => C25_Trigger ]_vars

\* Two assistant messages; the copy button was triggered twice and the
\* timeout of the first trigger has reset the flag while the timeout of the
\* second is still pending: no message shows the indicator.
C25_Witness ==
    /\ Cardinality(C25_Assistant) = 2
    /\ ~isCopied
    /\ Len(timers) = 1
    /\ timers[1] > 0
    /\ sinceCopy < copyDelay(variant)
    /\ \A i \in C25_Assistant : copyIcon(messages[i]) = "Copy"

(***************************************************************************)
(* Claims about the chat previews cache (SpecCache).                       *)
(***************************************************************************)
\* A chat stream finishes.
C29_Finish == status = "streaming" /\ status' = "ready"

\* The keys the claim names: arrays whose first element is 'chatPreviews'.
C29_Previews == {key \in CacheKeys : key.isArray /\ key.first = "chatPreviews"}

C28_MountStep == shellPc = "rendered" /\ shellPc' = "mounted"
C28_ResizeStep == innerWidth' # innerWidth /\ listeners > 0

\* C28: after mount and after every resize event isMobile is (window width
\* < 768); a resize or mount at width 768 or more sets sidebarOpen to true,
\* one below 768 leaves sidebarOpen as it was, so that going from a desktop
\* width to a mobile width leaves the sidebar open; the resize listener is
\* registered once on mount and removed on unmount.
C28_ResizePolicy ==
    /\ [](shellPc = "mounted" => isMobile = (innerWidth < 768))
    /\ [](listeners = IF shellPc = "mounted" THEN 1 ELSE 0)
    /\ [][ /\ (C28_MountStep \/ C28_ResizeStep) =>
                  /\ isMobile' = (innerWidth' < 768)
                  /\ innerWidth' >= 768 => sidebarOpen'
                  /\ innerWidth' < 768 => sidebarOpen' = sidebarOpen
           /\ (C28_ResizeStep /\ innerWidth >= 768 /\ innerWidth' < 768) =>
                  sidebarOpen'
           /\ C28_MountStep => listeners' = listeners + 1
           /\ (shellPc = "mounted" /\ shellPc' = "unmounted") =>
                  listeners' = listeners - 1
           /\ (shellPc' = shellPc \/ shellPc = "unmounted") =>
                  listeners' = listeners ]_vars

\* The window went from 768 to 767 while the component was mounted: it is
\* mobile and the sidebar is still open.
C28_Witness ==
    /\ shellPc = "mounted"
    /\ prevWidth = 768
    /\ innerWidth = 767
    /\ isMobile
    /\ sidebarOpen
    /\ listeners = 1

(***************************************************************************)
(* C27.  The welcome flag of part_001 and Chat.tsx.                        *)
(***************************************************************************)
\* a text of white space only, the empty text included
Blank(s) == \A i \in 1..Len(s) : s[i] \in {" ", "\n", "\t"}

\* the step is a quick action
C27_QuickAction == lastEvent' \in {"quick", "quick, no textarea"} /\ lastEvent' # lastEvent

\* the step is the welcome effect running with a non-empty message list
C27_EffectNonEmpty == effectLength' # effectLength /\ Len(messages) > 0

\* the step is a submit of the textarea variant with a non-empty input
C27_NonEmptySubmit == variant = "Chat" /\ requests' = requests + 1 /\ ~Blank(input)

\* C27 as stated: every quick action sets the welcome flag to false.
C27_QuickActionHides == [][C27_QuickAction => ~showWelcome']_vars

\* C27, amended: the welcome flag starts true; the welcome effect with a
\* non-empty message list, a quick action (in part_001 only one that finds
\* the textarea) and, in the textarea variant, a non-empty submit set it to
\* false; nothing else changes it and nothing sets it back to true; and
\* whenever the message list is non-empty the welcome screen is eventually
\* hidden.
C27_WelcomeFlag ==
    /\ showWelcome = TRUE
    /\ [][~showWelcome => ~showWelcome']_vars
    /\ [][C27_EffectNonEmpty => ~showWelcome']_vars
    /\ [][lastEvent' = "quick" /\ lastEvent' # lastEvent => ~showWelcome']_vars
    /\ [][C27_NonEmptySubmit => ~showWelcome']_vars
    /\ [][showWelcome' # showWelcome =>
            \/ C27_EffectNonEmpty
            \/ lastEvent' = "quick"
            \/ C27_NonEmptySubmit]_vars
    /\ (page = "chat" /\ Len(messages) > 0) ~> ~showWelcome

\* A quick action of part_001 has hidden the welcome screen of an empty chat
\* and the effect has run since.
C27_Witness ==
    /\ variant = "part_001"
    /\ lastEvent = "quick"
    /\ Len(messages) = 0
    /\ effectLength = 0
    /\ ~showWelcome

(***************************************************************************)
(* C30.  Empty input in the textarea of Chat.tsx and in the search form of *)
(* the landing page.                                                       *)
(***************************************************************************)
\* the character a unit of an encoded query stands for
C30_Decoded(unit) ==
    CASE unit = "%20" -> " "
      [] unit = "%26" -> "&"
      [] OTHER -> unit

\* the address is '/chat?q=' followed by the query, URL-encoded
C30_IsChatUrl(url, query) ==
    /\ Len(url) = Len(query) + 1
    /\ url[1] = "/chat?q="
    /\ \A i \in 1..Len(query) :
          /\ url[i + 1] \notin {" ", "&"}
          /\ C30_Decoded(url[i + 1]) = query[i]

\* C30: in the textarea variant a request leaves only on a click on the send
\* button or an Enter key without Shift, with an input that is not blank and
\* with no response loading; while a response is loading the textarea and
\* the send button are disabled, so the input does not change and nothing is
\* sent; a search submit of the landing page navigates only with a query
\* that is not blank, to '/chat?q=<URL-encoded query>', and otherwise
\* changes nothing.
C30_EmptyInputStays ==
    /\ [][variant = "Chat" /\ requests' # requests =>
            /\ ~Blank(input)
            /\ ~isLoading
            /\ lastEvent' \in {"Enter", "click"}]_vars
    /\ [][lastEvent # "Enter" /\ lastEvent' = "Enter" /\ Blank(input) =>
            UNCHANGED <<requests, status, messages, input>>]_vars
    /\ [](isLoading => textareaDisabled /\ sendDisabled)
    /\ [][variant = "Chat" /\ isLoading =>
            UNCHANGED <<input, requests, lastEvent>>]_vars
    /\ [][href' # href =>
            /\ lastEvent' = "search"
            /\ ~Blank(searchQuery)
            /\ C30_IsChatUrl(href', searchQuery)]_vars
    /\ [][lastEvent # "search" /\ lastEvent' = "search" /\ Blank(searchQuery) =>
            UNCHANGED <<href, page>>]_vars

\* Enter was pressed on an input of one space: nothing was sent.
C30_Witness ==
    /\ variant = "Chat"
    /\ lastEvent = "Enter"
    /\ input = <<" ">>
    /\ requests = 0
    /\ status = "ready"

====
